---- MODULE Spec2Model ----
(***************************************************************************)
(* MessageBusService (packages/cli/src/server/api/messaging/channels.ts):  *)
(* one agent's bridge between the in-process message bus and its runtime.  *)
(* Every await of handleIncomingMessage and sendAgentResponseToBus is a    *)
(* separate step, so that the handlings of several bus messages interleave *)
(* the way the event loop interleaves them.                                *)
(***************************************************************************)
EXTENDS Integers, Sequences, FiniteSets, TLC

\* ------------------------------------------------------------------------
\* Bounds
\* ------------------------------------------------------------------------
\* number of new_message deliveries handled by the service (Spec)
MaxDeliveries == 2
\* number of new_message deliveries handled by the service (SpecReply)
MaxReplyDeliveries == 1
\* number of times the runtime invokes the reply callback of one delivery
MaxReplies == 1

\* ------------------------------------------------------------------------
\* Identities
\* ------------------------------------------------------------------------
\* A UUID is the sequence of the strings it was made from.
AgentId == <<"agent">>
OtherAgentId == <<"agent2">>
UserId == <<"u1">>
Servers == {<<"s1">>, <<"s2">>, <<"s3">>}

\* The central messages that can appear on the bus: two messages of one
\* user in the same channel and one authored by the agent itself.
CentralMessages ==
  { [id |-> <<"m1">>, channel_id |-> <<"c1">>, server_id |-> <<"s1">>, author_id |-> UserId],
    [id |-> <<"m2">>, channel_id |-> <<"c1">>, server_id |-> <<"s1">>, author_id |-> UserId],
    [id |-> <<"m3">>, channel_id |-> <<"c1">>, server_id |-> <<"s1">>, author_id |-> AgentId] }
\* the servers that have messages, and one more
MessageServers == {m.server_id : m \in CentralMessages} \cup {<<"s2">>}

\* Responses of GET .../central-channels/:channelId/participants
ParticipantResponses ==
  { [kind |-> "network_error", data |-> {}],
    [kind |-> "not_ok", data |-> {}],
    [kind |-> "unsuccessful", data |-> {}],
    [kind |-> "ok", data |-> {}],
    [kind |-> "ok", data |-> {UserId}],
    [kind |-> "ok", data |-> {UserId, AgentId}] }

\* Responses of GET .../agents/:agentId/servers
ServerListResponses(known) ==
  { [kind |-> "network_error", servers |-> {}],
    [kind |-> "not_ok", servers |-> {}],
    [kind |-> "unsuccessful", servers |-> {}] }
  \cup { [kind |-> "ok", servers |-> S] : S \in SUBSET known }

\* Payloads of the server_agent_update bus event
ServerAgentUpdates(known) ==
  [ agentId : {AgentId, OtherAgentId},
    type : {"agent_added_to_server", "agent_removed_from_server", "agent_renamed"},
    serverId : known ]

\* Generated contents handed to the reply callback.  text is a sequence of
\* characters; hasText / hasActions say whether the field is present.
Whitespace == {" ", "\t", "\n"}
Contents ==
  { [hasText |-> FALSE, text |-> <<>>, hasActions |-> FALSE, actions |-> {}],
    [hasText |-> TRUE, text |-> <<>>, hasActions |-> TRUE, actions |-> {}],
    [hasText |-> TRUE, text |-> <<" ", "\t">>, hasActions |-> TRUE, actions |-> {"REPLY"}],
    [hasText |-> TRUE, text |-> <<"h", "i">>, hasActions |-> TRUE, actions |-> {"REPLY", "IGNORE"}],
    [hasText |-> TRUE, text |-> <<"h", "i">>, hasActions |-> TRUE, actions |-> {"REPLY"}],
    [hasText |-> TRUE, text |-> <<" ", "h">>, hasActions |-> FALSE, actions |-> {}] }

\* ------------------------------------------------------------------------
\* State
\* ------------------------------------------------------------------------
VARIABLES
  subscribed,        \* the service's listeners are registered on the bus
  fetchState,        \* the startup fetchAgentServers: idle, pending, settled
  subscribedServers, \* this.subscribedServers
  tasks,             \* one record per invocation of handleIncomingMessage
  worlds, rooms, entities, memories, \* the agent runtime's database
  posts,             \* POSTs made to /api/messages/submit
  fetchedServers,    \* history: the server list of the startup response
  handledUpdates,    \* history: the last update handled for each server
  socketIO,          \* serverInstance.socketIO is set
  listeners,         \* internalMessageBus: the listeners of each event, in order
  channels,          \* central database: channels with their participants
  messageRows,       \* central database: messages
  requests,          \* one record per HTTP request to the channels router
  log,               \* history: what the server did, in order
  suspended,         \* handlings whose awaited call never settles
  fetches,           \* client: one record per load of a channel's messages
  uiMessages,        \* client: the messages state of useChannelMessages
  relays,            \* one record per invocation of processSocketMessage
  messageList,       \* client: id and createdAt of the entries of the messages state, in order
  worldRoles,        \* agent database: the roles in the metadata of the world, if there is one
  roleRuns,          \* one record per run of the UPDATE_ROLE handler
  participantUserState, \* agent database: the agent's state in the room
  unmuteRuns         \* one record per run of the UNMUTE_ROOM handler

busVars == <<subscribed, fetchState, subscribedServers>>
dbVars == <<worlds, rooms, entities, memories>>
historyVars == <<fetchedServers, handledUpdates>>
storeVars == <<channels, messageRows>>
hookVars == <<messageList>>
pluginVars == <<worldRoles, roleRuns, participantUserState, unmuteRuns>>
guiVars == <<fetches, uiMessages, relays, hookVars, pluginVars>>
centralVars == <<socketIO, listeners, storeVars, requests, log, suspended, guiVars>>
vars == <<busVars, tasks, dbVars, posts, historyVars, centralVars>>

\* ------------------------------------------------------------------------
\* Pure helpers
\* ------------------------------------------------------------------------
\* createUniqueUuid(runtime, baseId): the id made from baseId and agentId
createUniqueUuid(agentId, baseId) == baseId \o agentId

MessageOf(id) == CHOOSE m \in CentralMessages : m.id = id

HasId(rows, id) == \E r \in rows : r.id = id
\* getWorld / getRoom / getMemoryById: the row with this id, if any
Lookup(rows, id) == {r \in rows : r.id = id}

\* the events of the internal message bus
BusEvents == {"new_message", "message_deleted", "channel_cleared", "server_agent_update"}

\* a listener registered on the bus: the bound handler of an agent's
\* MessageBusService, or a listener of other code of the process
ServiceListener(agentId) == [kind |-> "service", agent |-> agentId, throws |-> FALSE]
OtherListener(throws) == [kind |-> "other", agent |-> <<>>, throws |-> throws]

\* internalMessageBus.on(event, listener)
on(registered, event, listener) ==
  [registered EXCEPT ![event] = Append(@, listener)]

\* ------------------------------------------------------------------------
\* Initial state: the service object right after its constructor, on an
\* empty agent database
\* ------------------------------------------------------------------------
Init ==
  /\ subscribed = FALSE
  /\ fetchState = "idle"
  /\ subscribedServers = {}
  /\ tasks = <<>>
  /\ posts = {}
  /\ fetchedServers = {}
  /\ handledUpdates = [s \in Servers |-> "none"]
  /\ worlds = {}
  /\ rooms = {}
  /\ entities = {}
  /\ memories = {}
  /\ socketIO = FALSE
  /\ listeners = [event \in BusEvents |-> <<>>]
  /\ channels = {}
  /\ messageRows = {}
  /\ requests = <<>>
  /\ log = <<>>
  /\ suspended = {}
  /\ fetches = <<>>
  /\ uiMessages = {}
  /\ relays = <<>>
  /\ messageList = <<>>
  /\ worldRoles = {}
  /\ roleRuns = <<>>
  /\ participantUserState = "null"
  /\ unmuteRuns = <<>>

\* ------------------------------------------------------------------------
\* Subscription to the bus and the subscribedServers cache
\* ------------------------------------------------------------------------
\* connectToMessageBus: registers both listeners and starts the fetch
\* without awaiting it
connectToMessageBus ==
  /\ ~subscribed
  /\ fetchState = "idle"
  /\ subscribed' = TRUE
  /\ fetchState' = "pending"
  /\ listeners' = on(on(listeners, "new_message", ServiceListener(AgentId)),
                     "server_agent_update", ServiceListener(AgentId))
  /\ UNCHANGED <<subscribedServers, tasks, dbVars, posts, historyVars>>
  /\ UNCHANGED <<socketIO, storeVars, requests, log, suspended, guiVars>>

\* the value fetchAgentServers leaves in this.subscribedServers
fetchAgentServersResult(current, response) ==
  IF response.kind = "ok" THEN response.servers ELSE current

\* fetchAgentServers, from the arrival of the response on
fetchAgentServers(response) ==
  /\ fetchState = "pending"
  /\ subscribedServers' = fetchAgentServersResult(subscribedServers, response)
  /\ fetchState' = "settled"
  /\ UNCHANGED <<subscribed, tasks, dbVars, posts, historyVars, centralVars>>

\* the value handleServerAgentUpdate leaves in this.subscribedServers
handleServerAgentUpdateResult_AnyAgent(current, data) ==
  IF data.type = "agent_added_to_server" THEN current \cup {data.serverId}
  ELSE IF data.type = "agent_removed_from_server" THEN current \ {data.serverId}
  ELSE current
handleServerAgentUpdateResult(current, data) ==
  IF data.agentId # AgentId THEN current
  ELSE IF data.type = "agent_added_to_server" THEN current \cup {data.serverId}
  ELSE IF data.type = "agent_removed_from_server" THEN current \ {data.serverId}
  ELSE current

\* handleServerAgentUpdate, run synchronously by the bus emit
handleServerAgentUpdate(data) ==
  /\ subscribed
  /\ subscribedServers' = handleServerAgentUpdateResult(subscribedServers, data)
  /\ UNCHANGED <<subscribed, fetchState, tasks, dbVars, posts, historyVars, centralVars>>

\* ------------------------------------------------------------------------
\* handleIncomingMessage: one task per delivery of a new_message event
\* ------------------------------------------------------------------------
NoError == <<>>
\* error.message of the errors the runtime's database calls can throw,
\* as the sequence of their words
DuplicateWorldError == <<"duplicate", "key", "worlds_pkey">>
DuplicateRoomError == <<"duplicate", "key", "rooms_pkey">>
ConnectionError == <<"connection", "refused">>
ErrorMessages == {DuplicateWorldError, DuplicateRoomError, ConnectionError}

\* error.message && error.message.includes(needle)
includes(message, needle) == \E i \in 1..Len(message) : message[i] = needle

NoContent == [hasText |-> FALSE, text |-> <<>>, hasActions |-> FALSE, actions |-> {}]
\* the reply callback of a handling before its first invocation
IdleCallback ==
  [pc |-> "idle", content |-> NoContent, room |-> {}, world |-> {}, result |-> "none"]

\* the state of a handling when the bus invokes the handler
NewTask(message) ==
  [ msg |-> message.id,
    pc |-> "getChannelParticipants",
    outcome |-> "pending",
    agentListed |-> FALSE,       \* the fetched participant list names the agent
    subscribedAtCheck |-> FALSE, \* subscribedServers had the server at the check
    lastError |-> NoError,       \* error of the last ensureWorld/RoomExists call
    abortedAt |-> "none",        \* the call whose exception ended the handling
    escaped |-> FALSE,           \* the handler's promise was rejected
    emitted |-> FALSE,           \* MESSAGE_RECEIVED was emitted
    replies |-> 0,               \* invocations of the reply callback
    cb |-> IdleCallback ]

Tasks == 1..Len(tasks)
At(t, where) == t \in Tasks /\ tasks[t].pc = where
Msg(t) == MessageOf(tasks[t].msg)

\* the bus invokes boundHandleIncomingMessage, which runs up to the fetch
\* of the channel's participants
handleIncomingMessage(message) ==
  /\ subscribed
  /\ tasks' = Append(tasks, NewTask(message))
  /\ UNCHANGED <<busVars, dbVars, posts, historyVars, centralVars>>

\* the catch block of handleIncomingMessage: log and end the handling
CatchProcessingError_Rethrow(task, where) ==
  [task EXCEPT !.pc = "done", !.outcome = "error", !.abortedAt = where,
               !.escaped = TRUE]
CatchProcessingError(task, where) ==
  [task EXCEPT !.pc = "done", !.outcome = "error", !.abortedAt = where]

\* a return statement of handleIncomingMessage
Return(task, how) == [task EXCEPT !.pc = "done", !.outcome = how]

\* getChannelParticipants: the list on a successful response, else []
getChannelParticipants_LastKnown(response) ==
  IF response.kind = "ok" THEN response.data ELSE {UserId, AgentId}
getChannelParticipants(response) ==
  IF response.kind = "ok" THEN response.data ELSE {}

\* participants.includes(this.runtime.agentId)
IsParticipant_Anyone(participants) == participants = participants
IsParticipant(participants) == AgentId \in participants

\* validateServerSubscription
validateServerSubscription_Any(servers, message) == message.server_id \in servers \cup Servers
validateServerSubscription(servers, message) == message.server_id \in servers

\* validateNotSelfMessage
validateNotSelfMessage_Skipped(message) == message.author_id # OtherAgentId
validateNotSelfMessage(message) == message.author_id # AgentId

\* the handling after the participants arrived: participant check, then
\* (inside the try) the subscription and self-author checks and the call of
\* ensureWorldExists
AfterParticipants(t, response) ==
  LET participants == getChannelParticipants(response)
      task == [tasks[t] EXCEPT
                 !.agentListed = (response.kind = "ok" /\ AgentId \in response.data)]
      checked == [task EXCEPT
                 !.subscribedAtCheck = (Msg(t).server_id \in subscribedServers)]
  IN IF ~IsParticipant(participants) THEN Return(task, "not_participant")
     ELSE IF ~validateServerSubscription(subscribedServers, Msg(t))
       THEN Return(checked, "not_subscribed")
     ELSE IF ~validateNotSelfMessage(Msg(t)) THEN Return(checked, "self_message")
     ELSE [checked EXCEPT !.pc = "ensureWorldExists"]

\* the participants arrive
ParticipantsFetched(t, response) ==
  /\ At(t, "getChannelParticipants")
  /\ tasks' = [tasks EXCEPT ![t] = AfterParticipants(t, response)]
  /\ UNCHANGED <<busVars, dbVars, posts, historyVars, centralVars>>

\* the rows ensureWorldAndRoomExist asks the runtime to ensure
WorldOf(message) ==
  [id |-> createUniqueUuid(AgentId, message.server_id), serverId |-> message.server_id]
RoomOf(message) ==
  [id |-> createUniqueUuid(AgentId, message.channel_id),
   worldId |-> createUniqueUuid(AgentId, message.server_id),
   channelId |-> message.channel_id, serverId |-> message.server_id]

\* the catch of the ensureWorldExists call
IsWorldAlreadyExists_Copied(error) == includes(error, "rooms_pkey")
IsWorldAlreadyExists(error) == includes(error, "worlds_pkey")
\* the catch of the ensureRoomExists call
IsRoomAlreadyExists(error) == includes(error, "rooms_pkey")

\* runtime.ensureWorldExists resolves: the world exists from here on
EnsureWorldResolves(t) ==
  /\ At(t, "ensureWorldExists")
  /\ worlds' = IF HasId(worlds, WorldOf(Msg(t)).id) THEN worlds
               ELSE worlds \cup {WorldOf(Msg(t))}
  /\ tasks' = [tasks EXCEPT ![t].pc = "ensureRoomExists", ![t].lastError = NoError]
  /\ UNCHANGED <<busVars, rooms, entities, memories, posts, historyVars, centralVars>>

\* runtime.ensureWorldExists rejects; a primary-key violation is only
\* thrown for a world that exists
EnsureWorldRejects(t, error) ==
  /\ At(t, "ensureWorldExists")
  /\ error = DuplicateWorldError => HasId(worlds, WorldOf(Msg(t)).id)
  /\ LET task == [tasks[t] EXCEPT !.lastError = error]
     IN tasks' = [tasks EXCEPT ![t] =
          IF IsWorldAlreadyExists(error)
          THEN [task EXCEPT !.pc = "ensureRoomExists"]
          ELSE CatchProcessingError(task, "ensureWorldExists")]
  /\ UNCHANGED <<busVars, dbVars, posts, historyVars, centralVars>>

\* runtime.ensureRoomExists resolves; ensureAuthorEntityExists starts
EnsureRoomResolves(t) ==
  /\ At(t, "ensureRoomExists")
  /\ rooms' = IF HasId(rooms, RoomOf(Msg(t)).id) THEN rooms
              ELSE rooms \cup {RoomOf(Msg(t))}
  /\ tasks' = [tasks EXCEPT ![t].pc = "getEntityById", ![t].lastError = NoError]
  /\ UNCHANGED <<busVars, worlds, entities, memories, posts, historyVars, centralVars>>

EnsureRoomRejects(t, error) ==
  /\ At(t, "ensureRoomExists")
  /\ error = DuplicateRoomError => HasId(rooms, RoomOf(Msg(t)).id)
  /\ LET task == [tasks[t] EXCEPT !.lastError = error]
     IN tasks' = [tasks EXCEPT ![t] =
          IF IsRoomAlreadyExists(error)
          THEN [task EXCEPT !.pc = "getEntityById"]
          ELSE CatchProcessingError(task, "ensureRoomExists")]
  /\ UNCHANGED <<busVars, dbVars, posts, historyVars, centralVars>>

\* ensureAuthorEntityExists: the id of the author's entity
AuthorEntityId(message) == createUniqueUuid(AgentId, message.author_id)

\* runtime.getEntityById resolves
GetEntityResolves(t) ==
  /\ At(t, "getEntityById")
  /\ tasks' = [tasks EXCEPT ![t].lastError = NoError, ![t].pc =
       IF AuthorEntityId(Msg(t)) \in entities THEN "getMemoryById" ELSE "createEntity"]
  /\ UNCHANGED <<busVars, dbVars, posts, historyVars, centralVars>>

\* runtime.createEntity resolves
CreateEntityResolves(t) ==
  /\ At(t, "createEntity")
  /\ entities' = entities \cup {AuthorEntityId(Msg(t))}
  /\ tasks' = [tasks EXCEPT ![t].pc = "getMemoryById"]
  /\ UNCHANGED <<busVars, worlds, rooms, memories, posts, historyVars, centralVars>>

\* createAgentMemory
createAgentMemory_ChannelKeyed(message) ==
  [ id |-> createUniqueUuid(AgentId, message.channel_id),
    entityId |-> AuthorEntityId(message),
    agentId |-> AgentId,
    roomId |-> RoomOf(message).id,
    worldId |-> WorldOf(message).id,
    sourceId |-> message.id ]
createAgentMemory(message) ==
  [ id |-> createUniqueUuid(AgentId, message.id),
    entityId |-> AuthorEntityId(message),
    agentId |-> AgentId,
    roomId |-> RoomOf(message).id,
    worldId |-> WorldOf(message).id,
    sourceId |-> message.id ]

\* the duplicate-processing guard on the result of getMemoryById
IsDuplicate(existingMemory) == existingMemory # {}

\* runtime.getMemoryById resolves: return on an existing memory, otherwise
\* build the callback and call runtime.emitEvent(MESSAGE_RECEIVED)
GetMemoryResolves(t) ==
  /\ At(t, "getMemoryById")
  /\ LET existingMemory == Lookup(memories, createAgentMemory(Msg(t)).id)
     IN tasks' = [tasks EXCEPT ![t] =
          IF IsDuplicate(existingMemory) THEN Return(@, "duplicate")
          ELSE [@ EXCEPT !.pc = "emitEvent", !.emitted = TRUE]]
  /\ UNCHANGED <<busVars, dbVars, posts, historyVars, centralVars>>

\* getEntityById, createEntity, getMemoryById or emitEvent rejects
AwaitedCallRejects(t) ==
  /\ t \in Tasks
  /\ tasks[t].pc \in {"getEntityById", "createEntity", "getMemoryById", "emitEvent"}
  /\ tasks[t].cb.pc = "idle"
  /\ tasks' = [tasks EXCEPT ![t] = CatchProcessingError(@, @.pc)]
  /\ UNCHANGED <<busVars, dbVars, posts, historyVars, centralVars>>

\* the runtime's MESSAGE_RECEIVED handler stores the message it was given
RuntimeCreatesMemory(t) ==
  /\ At(t, "emitEvent")
  /\ ~HasId(memories, createAgentMemory(Msg(t)).id)
  /\ memories' = memories \cup {createAgentMemory(Msg(t))}
  /\ UNCHANGED <<busVars, tasks, worlds, rooms, entities, posts, historyVars, centralVars>>

\* runtime.emitEvent resolves, after its handlers stored the message and
\* the reply callbacks they invoked have returned
EmitEventResolves(t) ==
  /\ At(t, "emitEvent")
  /\ HasId(memories, createAgentMemory(Msg(t)).id)
  /\ tasks[t].cb.pc = "idle"
  /\ tasks' = [tasks EXCEPT ![t] = Return(@, "emitted")]
  /\ UNCHANGED <<busVars, dbVars, posts, historyVars, centralVars>>

\* ------------------------------------------------------------------------
\* callbackForCentralBus / sendAgentResponseToBus
\* ------------------------------------------------------------------------
RECURSIVE trimStart(_)
trimStart(text) ==
  IF text = <<>> THEN text
  ELSE IF Head(text) \in Whitespace THEN trimStart(Tail(text)) ELSE text

RECURSIVE trimEnd(_)
trimEnd(text) ==
  IF text = <<>> THEN text
  ELSE IF text[Len(text)] \in Whitespace
    THEN trimEnd(SubSeq(text, 1, Len(text) - 1)) ELSE text

\* String.prototype.trim
trim(text) == trimEnd(trimStart(text))

\* content.actions && content.actions.includes('IGNORE')
ChoseIgnore(content) == content.hasActions /\ "IGNORE" \in content.actions

\* !content.text || content.text.trim() === ''
HasNoText_NoTrim(content) == ~content.hasText \/ content.text = <<>>
HasNoText(content) ==
  \/ ~content.hasText
  \/ content.text = <<>>
  \/ trim(content.text) = <<>>

\* the runtime invokes the callback with a generated content; the callback
\* runs up to the first await of sendAgentResponseToBus
RuntimeInvokesCallback(t, content) ==
  /\ At(t, "emitEvent")
  /\ tasks[t].cb.pc = "idle"
  /\ tasks[t].replies < MaxReplies
  /\ tasks' = [tasks EXCEPT ![t].replies = @ + 1, ![t].cb =
       IF ChoseIgnore(content) THEN [IdleCallback EXCEPT !.content = content, !.result = "ignored"]
       ELSE IF HasNoText(content) THEN [IdleCallback EXCEPT !.content = content, !.result = "no_text"]
       ELSE [IdleCallback EXCEPT !.content = content, !.pc = "getRoom"]]
  /\ UNCHANGED <<busVars, dbVars, posts, historyVars, centralVars>>

\* runtime.getRoom(agentRoomId) resolves
GetRoomResolves(t) ==
  /\ t \in Tasks
  /\ tasks[t].cb.pc = "getRoom"
  /\ tasks' = [tasks EXCEPT ![t].cb.room = Lookup(rooms, RoomOf(Msg(t)).id),
                            ![t].cb.pc = "getWorld"]
  /\ UNCHANGED <<busVars, dbVars, posts, historyVars, centralVars>>

\* channelId = room?.channelId and serverId = world?.serverId
CentralIdsOf(room, world) ==
  [channelId |-> {r.channelId : r \in room}, serverId |-> {w.serverId : w \in world}]

\* !channelId || !serverId
CannotMap(channelId, serverId) == channelId = {} \/ serverId = {}

\* runtime.getWorld(agentWorldId) resolves; the reply is given up when the
\* room or the world does not map back to central ids
GetWorldResolves(t) ==
  /\ t \in Tasks
  /\ tasks[t].cb.pc = "getWorld"
  /\ LET world == Lookup(worlds, WorldOf(Msg(t)).id)
         cb == [tasks[t].cb EXCEPT !.world = world]
         ids == CentralIdsOf(cb.room, world)
     IN tasks' = [tasks EXCEPT ![t].cb =
          IF CannotMap(ids.channelId, ids.serverId)
          THEN [cb EXCEPT !.pc = "idle", !.result = "unmapped"]
          ELSE [cb EXCEPT !.pc = "getMemoryById"]]
  /\ UNCHANGED <<busVars, dbVars, posts, historyVars, centralVars>>

\* payloadToServer
payloadToServer(channelId, serverId, content, originalAgentMemory) ==
  [ channel_id |-> channelId,
    server_id |-> serverId,
    author_id |-> AgentId,
    content |-> content.text,
    in_reply_to_message_id |-> {m.sourceId : m \in originalAgentMemory},
    source_type |-> "agent_response" ]

\* runtime.getMemoryById(inReplyToAgentMemoryId) resolves; the payload is
\* built and the POST to /api/messages/submit is sent
GetOriginalMemoryResolves(t) ==
  /\ t \in Tasks
  /\ tasks[t].cb.pc = "getMemoryById"
  /\ LET cb == tasks[t].cb
         originalAgentMemory == Lookup(memories, createAgentMemory(Msg(t)).id)
         ids == CentralIdsOf(cb.room, cb.world)
         channelId == CHOOSE c \in ids.channelId : TRUE
         serverId == CHOOSE v \in ids.serverId : TRUE
     IN posts' = posts \cup
          {[ payload |-> payloadToServer(channelId, serverId, cb.content, originalAgentMemory),
             task |-> t,
             message |-> tasks[t].msg,
             reply |-> cb.content ]}
  /\ tasks' = [tasks EXCEPT ![t].cb.pc = "post"]
  /\ UNCHANGED <<busVars, dbVars, historyVars, centralVars>>

\* the POST settles: success, a non-OK status or a network error are all
\* only logged
PostSettles_Throwing(t, outcome) ==
  /\ t \in Tasks
  /\ tasks[t].cb.pc = "post"
  /\ tasks' = [tasks EXCEPT ![t] =
       IF outcome = "posted" THEN [@ EXCEPT !.cb.pc = "idle", !.cb.result = outcome]
       ELSE [CatchProcessingError(@, "emitEvent") EXCEPT !.cb.pc = "idle",
                                                        !.cb.result = outcome]]
  /\ UNCHANGED <<busVars, dbVars, posts, historyVars, centralVars>>
PostSettles(t, outcome) ==
  /\ t \in Tasks
  /\ tasks[t].cb.pc = "post"
  /\ tasks' = [tasks EXCEPT ![t].cb.pc = "idle", ![t].cb.result = outcome]
  /\ UNCHANGED <<busVars, dbVars, posts, historyVars, centralVars>>

\* getRoom, getWorld or getMemoryById rejects inside sendAgentResponseToBus:
\* caught and logged there
ResponseCallRejects(t) ==
  /\ t \in Tasks
  /\ tasks[t].cb.pc \in {"getRoom", "getWorld", "getMemoryById"}
  /\ tasks' = [tasks EXCEPT ![t].cb.pc = "idle", ![t].cb.result = "error"]
  /\ UNCHANGED <<busVars, dbVars, posts, historyVars, centralVars>>

\* The socket relay serves the same channels for the same runtime.
\* Payloads of its message event: the sender, the channel the client is
\* in, and the server (absent for a plain client chat).
SocketPayloads ==
  [ senderId : {UserId, AgentId},
    channelId : {m.channel_id : m \in CentralMessages},
    serverId : {m.server_id : m \in CentralMessages} ]

\* serverId || 'client-chat'
SocketServerId(payload) ==
  IF payload.serverId = <<>> THEN <<"client-chat">> ELSE payload.serverId

\* the connection processSocketMessage asks the runtime to ensure
SocketWorldOf(payload) ==
  [id |-> createUniqueUuid(AgentId, SocketServerId(payload)),
   serverId |-> SocketServerId(payload)]
SocketRoomOf(payload) ==
  [id |-> createUniqueUuid(AgentId, payload.channelId),
   worldId |-> createUniqueUuid(AgentId, SocketServerId(payload)),
   channelId |-> createUniqueUuid(AgentId, payload.channelId),
   serverId |-> SocketServerId(payload)]

\* processSocketMessage up to the point where runtime.ensureConnection has
\* resolved: the world, the room and the sender's entity exist
SocketEnsureConnection(payload) ==
  /\ payload.senderId # AgentId
  /\ worlds' = IF HasId(worlds, SocketWorldOf(payload).id) THEN worlds
               ELSE worlds \cup {SocketWorldOf(payload)}
  /\ rooms' = IF HasId(rooms, SocketRoomOf(payload).id) THEN rooms
              ELSE rooms \cup {SocketRoomOf(payload)}
  /\ entities' = entities \cup {createUniqueUuid(AgentId, payload.senderId)}
  /\ UNCHANGED <<busVars, tasks, memories, posts, historyVars, centralVars>>

\* ------------------------------------------------------------------------
\* Specifications
\* ------------------------------------------------------------------------
Subscription ==
  \/ connectToMessageBus
  \/ \E response \in ServerListResponses(MessageServers) : fetchAgentServers(response)
  \/ \E data \in ServerAgentUpdates(MessageServers) : handleServerAgentUpdate(data)

Handling ==
  \/ \E t \in Tasks, response \in ParticipantResponses : ParticipantsFetched(t, response)
  \/ \E t \in Tasks : EnsureWorldResolves(t)
  \/ \E t \in Tasks, error \in ErrorMessages : EnsureWorldRejects(t, error)
  \/ \E t \in Tasks : EnsureRoomResolves(t)
  \/ \E t \in Tasks, error \in ErrorMessages : EnsureRoomRejects(t, error)
  \/ \E t \in Tasks : GetEntityResolves(t)
  \/ \E t \in Tasks : CreateEntityResolves(t)
  \/ \E t \in Tasks : GetMemoryResolves(t)
  \/ \E t \in Tasks : AwaitedCallRejects(t)
  \/ \E t \in Tasks : RuntimeCreatesMemory(t)
  \/ \E t \in Tasks : EmitEventResolves(t)

Deliver ==
  \E message \in CentralMessages :
    Len(tasks) < MaxDeliveries /\ handleIncomingMessage(message)

\* the service handling bus messages
Next == Subscription \/ Deliver \/ Handling

Spec == Init /\ [][Next]_vars

\* --- the replies of the agent ---
Startup ==
  \/ connectToMessageBus
  \/ \E response \in ServerListResponses({m.server_id : m \in CentralMessages}) :
       fetchAgentServers(response)

DeliverReply ==
  \E message \in CentralMessages :
    Len(tasks) < MaxReplyDeliveries /\ handleIncomingMessage(message)

Replying ==
  \/ \E t \in Tasks, content \in Contents : RuntimeInvokesCallback(t, content)
  \/ \E t \in Tasks : GetRoomResolves(t)
  \/ \E t \in Tasks : GetWorldResolves(t)
  \/ \E t \in Tasks : GetOriginalMemoryResolves(t)
  \/ \E t \in Tasks, outcome \in {"posted", "not_ok", "network_error"} : PostSettles(t, outcome)
  \/ \E t \in Tasks : ResponseCallRejects(t)
  \/ \E payload \in SocketPayloads : SocketEnsureConnection(payload)

NextReply == Startup \/ DeliverReply \/ Handling \/ Replying

SpecReply == Init /\ [][NextReply]_vars

\* --- the subscribedServers cache, with its history ---
\* fetchAgentServers, recording the fetched list
TrackedFetch(response) ==
  /\ fetchState = "pending"
  /\ subscribedServers' = fetchAgentServersResult(subscribedServers, response)
  /\ fetchState' = "settled"
  /\ fetchedServers' = IF response.kind = "ok" THEN {response.servers} ELSE {}
  /\ UNCHANGED <<subscribed, tasks, dbVars, posts, handledUpdates, centralVars>>

\* handleServerAgentUpdate, recording the update it applied
TrackedUpdate(data) ==
  /\ subscribed
  /\ subscribedServers' = handleServerAgentUpdateResult(subscribedServers, data)
  /\ handledUpdates' =
       IF /\ data.agentId = AgentId
          /\ data.type \in {"agent_added_to_server", "agent_removed_from_server"}
       THEN [handledUpdates EXCEPT ![data.serverId] = data.type]
       ELSE handledUpdates
  /\ UNCHANGED <<subscribed, fetchState, tasks, dbVars, posts, fetchedServers, centralVars>>

NextServers ==
  \/ connectToMessageBus
  \/ \E response \in ServerListResponses(Servers) : TrackedFetch(response)
  \/ \E data \in ServerAgentUpdates(Servers) : TrackedUpdate(data)

SpecServers == Init /\ [][NextServers]_vars

\* ------------------------------------------------------------------------
\* Properties
\* ------------------------------------------------------------------------
\* the handling went past the three checks, to the world/room/entity calls
PastChecks(task) ==
  \/ task.pc \in {"ensureWorldExists", "ensureRoomExists", "getEntityById",
                  "createEntity", "getMemoryById", "emitEvent"}
  \/ task.pc = "done" /\ task.outcome \in {"duplicate", "emitted", "error"}

\* the handling has seen the result of its getMemoryById
LookedUpMemory(task) ==
  \/ task.pc = "emitEvent"
  \/ task.pc = "done" /\ task.outcome \in {"duplicate", "emitted"}
  \/ task.pc = "done" /\ task.abortedAt = "emitEvent"

\* C1: for every central message id, over all deliveries and interleavings,
\* MESSAGE_RECEIVED is emitted to the runtime at most once.
C1_EmittedAtMostOnce ==
  \A m \in CentralMessages :
    Cardinality({t \in Tasks : tasks[t].msg = m.id /\ tasks[t].emitted}) <= 1

\* C2: when the same message is delivered twice and the first delivery is
\* emitted, the second delivery finds the memory under the derived id and is
\* dropped as a duplicate without emitting; one memory exists for the id.
C2_SecondDeliveryDropped ==
  \A t1, t2 \in Tasks :
    (t1 < t2 /\ tasks[t1].msg = tasks[t2].msg /\ tasks[t1].emitted
       /\ LookedUpMemory(tasks[t2]))
    => /\ tasks[t2].outcome = "duplicate"
       /\ ~tasks[t2].emitted
       /\ Cardinality(Lookup(memories, createUniqueUuid(AgentId, tasks[t2].msg))) = 1

\* C3: a message authored by the agent itself never gets past the checks:
\* no world, room or entity call, no MESSAGE_RECEIVED and no memory for it,
\* whatever the participant list and subscribedServers contain.
C3_SelfMessageDropped ==
  \A t \in Tasks :
    Msg(t).author_id = AgentId
    => /\ ~PastChecks(tasks[t])
       /\ ~tasks[t].emitted
       /\ ~HasId(memories, createUniqueUuid(AgentId, tasks[t].msg))

C3_Witness ==
  \E t \in Tasks :
    /\ Msg(t).author_id = AgentId
    /\ tasks[t].pc = "done"
    /\ tasks[t].agentListed
    /\ tasks[t].subscribedAtCheck

\* C4: when the fetched participant list does not contain the agent, the
\* handling returns before ensureWorldExists, ensureRoomExists, getEntityById
\* and createEntity, and emits no MESSAGE_RECEIVED.
C4_NonParticipantDropped ==
  \A t \in Tasks :
    (tasks[t].pc # "getChannelParticipants" /\ ~tasks[t].agentListed)
    => /\ ~PastChecks(tasks[t])
       /\ ~tasks[t].emitted
       /\ tasks[t].outcome = "not_participant"

C4_Witness ==
  \E t \in Tasks :
    /\ tasks[t].pc = "done"
    /\ ~tasks[t].agentListed
    /\ Msg(t).author_id # AgentId
    /\ Msg(t).server_id \in subscribedServers

\* C5: when subscribedServers does not contain the message's server at the
\* time of the check, the message is dropped although the agent is a channel
\* participant: no world, room or entity call and no MESSAGE_RECEIVED.
C5_UnsubscribedServerDropped ==
  \A t \in Tasks :
    (tasks[t].pc # "getChannelParticipants" /\ tasks[t].agentListed
       /\ ~tasks[t].subscribedAtCheck)
    => /\ ~PastChecks(tasks[t])
       /\ ~tasks[t].emitted
       /\ tasks[t].outcome = "not_subscribed"

C5_Witness ==
  \E t \in Tasks :
    /\ tasks[t].pc = "done"
    /\ tasks[t].agentListed
    /\ ~tasks[t].subscribedAtCheck
    /\ Msg(t).author_id # AgentId
    /\ Msg(t).server_id \in subscribedServers

\* the fetched server list with every handled update applied: the last
\* update of a server decides, the fetched list where there was none
FetchedWithUpdates(servers, updates) ==
  { s \in Servers :
      \/ updates[s] = "agent_added_to_server"
      \/ updates[s] = "none" /\ s \in servers }

\* C6: once the startup list has been fetched, subscribedServers equals the
\* fetched list with every handled agent_added_to_server and
\* agent_removed_from_server event applied, also for the events handled
\* before the response arrived.
C6_SubscribedServersCurrent ==
  \A servers \in fetchedServers :
    subscribedServers = FetchedWithUpdates(servers, handledUpdates)

\* C7: a throwing step ends the handling there: the error is caught (the
\* handler's promise is not rejected), the handling is never resumed or
\* retried, and the service stays subscribed.
C7_ErrorsAbortQuietly ==
  [][\A t \in Tasks :
       /\ (tasks[t].pc # "done" /\ tasks'[t].outcome = "error")
          => /\ tasks'[t].pc = "done"
             /\ tasks'[t].abortedAt = tasks[t].pc
             /\ ~tasks'[t].escaped
             /\ tasks'[t].emitted = tasks[t].emitted
             /\ subscribed'
       /\ tasks[t].outcome = "error"
          => tasks'[t] = tasks[t] /\ subscribed'
     ]_vars

C7_Witness ==
  \E t1, t2 \in Tasks :
    /\ t1 < t2
    /\ tasks[t1].outcome = "error"
    /\ tasks[t1].abortedAt = "createEntity"
    /\ tasks[t2].outcome = "emitted"
    /\ subscribed

\* C8: a worlds_pkey error of ensureWorldExists and a rooms_pkey error of
\* ensureRoomExists let the handling continue as after a successful create
\* (the world, the room exist); any other error of these calls aborts it.
C8_DuplicateKeyIsSuccess ==
  \A t \in Tasks :
    /\ At(t, "ensureRoomExists")
       => /\ tasks[t].lastError \in {NoError, DuplicateWorldError}
          /\ HasId(worlds, WorldOf(Msg(t)).id)
    /\ At(t, "getEntityById")
       => /\ tasks[t].lastError \in {NoError, DuplicateRoomError}
          /\ HasId(rooms, RoomOf(Msg(t)).id)
    /\ tasks[t].abortedAt = "ensureWorldExists"
       => tasks[t].lastError \in ErrorMessages \ {DuplicateWorldError}
    /\ tasks[t].abortedAt = "ensureRoomExists"
       => tasks[t].lastError \in ErrorMessages \ {DuplicateRoomError}

C8_Witness ==
  \E t, u \in Tasks :
    /\ t # u
    /\ At(t, "ensureRoomExists")
    /\ tasks[t].lastError = DuplicateWorldError
    /\ tasks[u].pc \in {"ensureRoomExists", "getEntityById"}
    /\ Msg(u).channel_id = Msg(t).channel_id

\* a text with a character that is not whitespace
IsNonBlank(content) ==
  content.hasText /\ \E i \in 1..Len(content.text) : content.text[i] \notin Whitespace
HasIgnoreAction(content) == content.hasActions /\ "IGNORE" \in content.actions

\* C9: no POST is made for a content whose actions include IGNORE or whose
\* text is missing, empty or whitespace-only; the callback of such a content
\* returns at once.
C9_FilteredRepliesNotPosted ==
  /\ \A p \in posts : IsNonBlank(p.reply) /\ ~HasIgnoreAction(p.reply)
  /\ \A t \in Tasks :
       (HasIgnoreAction(tasks[t].cb.content) \/ ~IsNonBlank(tasks[t].cb.content))
       => tasks[t].cb.pc = "idle"

C9_Witness ==
  \E t \in Tasks :
    /\ tasks[t].cb.result = "ignored"
    /\ IsNonBlank(tasks[t].cb.content)
    /\ \A p \in posts : p.task # t

MaxRequests == 2

\* the reserved id of the default server
DEFAULT_SERVER_ID == <<"00000000-0000-0000-0000-000000000000">>
\* a field the request does not have, and the null of validateUuid
Missing == <<>>
\* texts that are not in the UUID format
Malformed == <<"not-a-uuid">>
ZeroText == <<"0">>
EmptyText == <<"">>

ChannelIds == {<<"c1">>, <<"c2">>}
MessageIds == << <<"m1">>, <<"m2">>, <<"m3">>, <<"m4">> >>
\* the texts in the UUID format
WellFormed ==
  ChannelIds \cup Servers \cup {DEFAULT_SERVER_ID, UserId, AgentId, OtherAgentId}
    \cup {MessageIds[i] : i \in 1..Len(MessageIds)}

\* validateUuid: the text itself when it has the UUID format, otherwise null
validateUuid(value) == IF value \in WellFormed THEN value ELSE Missing

\* !value of JavaScript for a text: undefined, null and "" are falsy
IsFalsy_Undefined(value) == value = Missing
IsFalsy(value) == value = Missing \/ value = EmptyText

\* the status codes of the responses
HttpCreated == 201
HttpNoContent == 204
HttpBadRequest == 400
HttpServerError == 500

\* the servers of the central database: the default server and one more
CentralServerIds == {DEFAULT_SERVER_ID, <<"s1">>}

\* the metadata of a request body
NoMetadata ==
  [isDm |-> FALSE, channelType |-> "", channel_type |-> "", targetUserId |-> Missing,
   recipientId |-> Missing]
Metadatas ==
  { NoMetadata,
    [NoMetadata EXCEPT !.isDm = TRUE, !.targetUserId = AgentId],
    [NoMetadata EXCEPT !.channelType = "DM", !.targetUserId = Malformed],
    [NoMetadata EXCEPT !.channel_type = "GROUP"] }

\* the raw_message of a request body: undefined, an object, the JSON text of
\* an object, or a text that is not JSON
NoRawMessage == [form |-> "undefined", thought |-> Missing, actions |-> Missing]
RawMessages ==
  { NoRawMessage,
    [form |-> "object", thought |-> <<"hm">>, actions |-> <<"REPLY">>],
    [form |-> "json", thought |-> <<"hm">>, actions |-> Missing],
    [form |-> "text", thought |-> Missing, actions |-> Missing] }

NoBody ==
  [author_id |-> Missing, content |-> Missing, server_id |-> Missing,
   metadata |-> NoMetadata, raw_message |-> NoRawMessage]

\* a request the router has received
NewRequest(route, channelId, messageId, body) ==
  [ route |-> route,
    channelId |-> channelId,   \* req.params.channelId
    messageId |-> messageId,   \* req.params.messageId
    body |-> body,
    pc |-> "arrived",
    status |-> 0,              \* the status of the response, 0 before it
    failure |-> "none",        \* why the request was not served
    autoCreate |-> FALSE,      \* the handler found no channel
    stored |-> Missing ]       \* the id of the message it persisted

Requests == 1..Len(requests)
Serving(r, where) == r \in Requests /\ requests[r].pc = where

\* res.status(code): the end of a request
Respond(request, code, why) ==
  [request EXCEPT !.pc = "responded", !.status = code, !.failure = why]

\* --- the history of the server ---
NoListener == [kind |-> "none", agent |-> Missing, throws |-> FALSE]
\* kind: what was done; req: the request that did it; name: the bus or
\* socket event; id: the message or channel of the payload; channel: the
\* channel of the request, which is the channel of the payload and the
\* socket room
Entry(kind, r, name, id) ==
  [ kind |-> kind, req |-> r, name |-> name, id |-> id,
    channel |-> IF r \in Requests THEN requests[r].channelId ELSE Missing,
    status |-> 0, to |-> NoListener ]
Responded(r, code) == [Entry("respond", r, "", Missing) EXCEPT !.status = code]

\* --- internalMessageBus.emit ---
\* the listeners an emit invokes: all of them in registration order, up to
\* the first one that throws
Invoked_FirstOnly(registered) ==
  IF registered = <<>> THEN <<>> ELSE <<Head(registered)>>
RECURSIVE Invoked(_)
Invoked(registered) ==
  IF registered = <<>> THEN <<>>
  ELSE IF Head(registered).throws THEN <<Head(registered)>>
  ELSE <<Head(registered)>> \o Invoked(Tail(registered))

\* the emit ends with the exception of a listener
EmitThrows_Never(registered) == \E i \in 1..Len(registered) : FALSE
EmitThrows(registered) == \E i \in 1..Len(registered) : registered[i].throws

\* the emit and the calls of its listeners, as they go into the history
RECURSIVE Calls(_, _, _, _)
Calls(invoked, r, event, id) ==
  IF invoked = <<>> THEN <<>>
  ELSE <<[Entry("listener", r, event, id) EXCEPT !.to = Head(invoked)]>>
         \o Calls(Tail(invoked), r, event, id)

emit(r, event, id) ==
  <<Entry("emit", r, event, id)>> \o Calls(Invoked(listeners[event]), r, event, id)

\* the handlings that an emit of new_message starts in the agent's service
RECURSIVE Started(_, _)
Started(invoked, message) ==
  IF invoked = <<>> THEN <<>>
  ELSE (IF Head(invoked) = ServiceListener(AgentId) THEN <<NewTask(message)>> ELSE <<>>)
         \o Started(Tail(invoked), message)

\* serverInstance.socketIO.to(channelId).emit(name, ...), when there is a
\* socket server
SocketEmit_Never(r, name, id) == SubSeq(<<Entry("socket", r, name, id)>>, 1, 0)
SocketEmit(r, name, id) ==
  IF socketIO THEN <<Entry("socket", r, name, id)>> ELSE <<>>

\* what a handler does after its database call, up to its response: the
\* emit on the bus, then the socket event, then the success status; the
\* exception of a listener goes to the handler's catch block instead
Publish_SocketFirst(r, event, id, socketEvent, code) ==
  SocketEmit(r, socketEvent, id) \o emit(r, event, id)
    \o (IF EmitThrows(listeners[event]) THEN <<Responded(r, HttpServerError)>>
        ELSE <<Responded(r, code)>>)
Publish(r, event, id, socketEvent, code) ==
  emit(r, event, id)
    \o (IF EmitThrows(listeners[event]) THEN <<Responded(r, HttpServerError)>>
        ELSE SocketEmit(r, socketEvent, id) \o <<Responded(r, code)>>)

Published(request, event, code) ==
  IF EmitThrows(listeners[event]) THEN Respond(request, HttpServerError, "listener")
  ELSE Respond(request, code, "none")

\* a database call of a handler rejected: its catch block answers 500
Failed(r, call) ==
  /\ requests' = [requests EXCEPT ![r] = Respond(@, HttpServerError, call)]
  /\ log' = Append(log, Responded(r, HttpServerError))

agentVars == <<busVars, dbVars, posts, historyVars>>

\* --- POST /central-channels/:channelId/messages ---
\* the check of the required fields
PostIsValid(channelId, body) ==
  LET channelIdParam == validateUuid(channelId)
      isValidServerId ==
        body.server_id = DEFAULT_SERVER_ID \/ validateUuid(body.server_id) # Missing
  IN ~(\/ channelIdParam = Missing
       \/ validateUuid(body.author_id) = Missing
       \/ IsFalsy(body.content)
       \/ ~isValidServerId)

\* the request arrives: 400 on a missing field, otherwise the lookup of the
\* channel starts
PostMessage(channelId, body) ==
  /\ LET request == NewRequest("post_message", channelId, Missing, body)
     IN IF PostIsValid(channelId, body)
        THEN /\ requests' = Append(requests, [request EXCEPT !.pc = "getChannelDetails"])
             /\ log' = log
        ELSE /\ requests' =
                  Append(requests, Respond(request, HttpBadRequest, "validation"))
             /\ log' = Append(log, Responded(Len(requests) + 1, HttpBadRequest))
  /\ UNCHANGED <<agentVars, tasks, socketIO, listeners, storeVars, suspended, guiVars>>

\* getChannelDetails settles: a rejection counts as "no such channel"
GetChannelDetailsSettles(r, outcome) ==
  /\ Serving(r, "getChannelDetails")
  /\ LET channelExists ==
           outcome = "resolved" /\ HasId(channels, requests[r].channelId)
     IN requests' = [requests EXCEPT ![r] =
          IF channelExists THEN [@ EXCEPT !.pc = "createMessage"]
          ELSE [@ EXCEPT !.pc = "getServers", !.autoCreate = TRUE]]
  /\ UNCHANGED <<agentVars, tasks, socketIO, listeners, storeVars, log, suspended, guiVars>>

\* servers.some((s) => s.id === server_id)
serverExists_Any(servers, server_id) == server_id \in servers \cup WellFormed
serverExists(servers, server_id) == server_id \in servers

\* getServers settles: without the server there is no channel to create
GetServersSettles(r, outcome) ==
  /\ Serving(r, "getServers")
  /\ IF outcome = "rejected" THEN Failed(r, "createChannel")
        ELSE IF ~serverExists(CentralServerIds, requests[r].body.server_id)
        THEN Failed(r, "no_server")
        ELSE /\ requests' = [requests EXCEPT ![r].pc = "createChannel"]
             /\ log' = log
  /\ UNCHANGED <<agentVars, tasks, socketIO, listeners, storeVars, suspended, guiVars>>

\* DM or GROUP, from the metadata of the request
isDmChannel_TypeOnly(metadata) ==
  metadata.channelType = "DM" \/ metadata.channel_type = "DM"
isDmChannel(metadata) ==
  metadata.isDm \/ metadata.channelType = "DM" \/ metadata.channel_type = "DM"

\* the channel the handler creates, with its participants
channelData_TargetOnly(channelId, body) ==
  LET dm == isDmChannel(body.metadata)
      otherParticipant == body.metadata.targetUserId
  IN [ id |-> channelId,
       messageServerId |-> body.server_id,
       type |-> IF dm THEN "DM" ELSE "GROUP",
       sourceType |-> "auto_created",
       channel_type |->
         IF body.metadata.channel_type # "" THEN body.metadata.channel_type
         ELSE IF dm THEN "DM" ELSE "GROUP",
       participants |->
         {body.author_id} \cup
           (IF dm /\ ~IsFalsy(otherParticipant) /\ validateUuid(otherParticipant) # Missing
            THEN {otherParticipant} ELSE {}) ]
channelData(channelId, body) ==
  LET dm == isDmChannel(body.metadata)
      \* metadata?.targetUserId || metadata?.recipientId
      otherParticipant ==
        IF ~IsFalsy(body.metadata.targetUserId) THEN body.metadata.targetUserId
        ELSE body.metadata.recipientId
  IN [ id |-> channelId,
       messageServerId |-> body.server_id,
       type |-> IF dm THEN "DM" ELSE "GROUP",
       sourceType |-> "auto_created",
       channel_type |->
         IF body.metadata.channel_type # "" THEN body.metadata.channel_type
         ELSE IF dm THEN "DM" ELSE "GROUP",
       participants |->
         {body.author_id} \cup
           (IF dm /\ ~IsFalsy(otherParticipant) /\ validateUuid(otherParticipant) # Missing
            THEN {otherParticipant} ELSE {}) ]

\* createChannel settles; the database rejects a second channel of the
\* same id
CreateChannelSettles(r, outcome) ==
  /\ Serving(r, "createChannel")
  /\ IF outcome = "resolved"
     THEN /\ ~HasId(channels, requests[r].channelId)
          /\ channels' = channels \cup {channelData(requests[r].channelId, requests[r].body)}
          /\ requests' = [requests EXCEPT ![r].pc = "createMessage"]
          /\ log' = Append(log, Entry("channel_created", r, "", requests[r].channelId))
     ELSE /\ Failed(r, "createChannel")
          /\ channels' = channels
  /\ UNCHANGED <<agentVars, tasks, socketIO, listeners, messageRows, suspended, guiVars>>

\* the messages persisted so far
Persisted == {i \in 1..Len(log) : log[i].kind = "persist"}

\* createMessage: the row of the central database
createMessage(id, request) ==
  [ id |-> id,
    channelId |-> request.channelId,
    authorId |-> request.body.author_id,
    content |-> request.body.content,
    rawMessage |-> request.body.raw_message,
    metadata |-> request.body.metadata ]

\* the message as it goes on the bus
messageForBus(createdRootMessage, body) ==
  [ id |-> createdRootMessage.id,
    channel_id |-> createdRootMessage.channelId,
    server_id |-> body.server_id,
    author_id |-> createdRootMessage.authorId ]

\* createMessage settles: the emit on the bus, the socket broadcast and the
\* response follow in the same turn of the event loop
CreateMessageSettles(r, outcome) ==
  /\ Serving(r, "createMessage")
  /\ IF outcome = "resolved"
     THEN /\ HasId(channels, requests[r].channelId)
          /\ Cardinality(Persisted) < Len(MessageIds)
          /\ LET createdRootMessage ==
                   createMessage(MessageIds[Cardinality(Persisted) + 1], requests[r])
                 message == messageForBus(createdRootMessage, requests[r].body)
             IN /\ messageRows' = messageRows \cup {createdRootMessage}
                /\ tasks' = tasks \o Started(Invoked(listeners["new_message"]), message)
                /\ requests' = [requests EXCEPT ![r] =
                     Published([@ EXCEPT !.stored = message.id], "new_message", HttpCreated)]
                /\ log' = log \o <<Entry("persist", r, "", message.id)>>
                              \o Publish(r, "new_message", message.id,
                                         "messageBroadcast", HttpCreated)
     ELSE /\ Failed(r, "createMessage")
          /\ UNCHANGED <<messageRows, tasks>>
  /\ UNCHANGED <<agentVars, socketIO, listeners, channels, suspended, guiVars>>

\* --- DELETE /central-channels/:channelId/messages/:messageId ---
DeleteMessage(channelId, messageId) ==
  /\ LET request == NewRequest("delete_message", channelId, messageId, NoBody)
     IN IF validateUuid(channelId) = Missing \/ validateUuid(messageId) = Missing
        THEN /\ requests' =
                  Append(requests, Respond(request, HttpBadRequest, "validation"))
             /\ log' = Append(log, Responded(Len(requests) + 1, HttpBadRequest))
        ELSE /\ requests' = Append(requests, [request EXCEPT !.pc = "deleteMessage"])
             /\ log' = log
  /\ UNCHANGED <<agentVars, tasks, socketIO, listeners, storeVars, suspended, guiVars>>

DeleteMessageSettles(r, outcome) ==
  /\ Serving(r, "deleteMessage")
  /\ IF outcome = "resolved"
     THEN /\ messageRows' = {row \in messageRows : row.id # requests[r].messageId}
          /\ requests' = [requests EXCEPT ![r] =
               Published(@, "message_deleted", HttpNoContent)]
          /\ log' = log \o <<Entry("deleted", r, "message", requests[r].messageId)>>
                        \o Publish(r, "message_deleted", requests[r].messageId,
                                   "messageDeleted", HttpNoContent)
     ELSE /\ Failed(r, "deleteMessage")
          /\ messageRows' = messageRows
  /\ UNCHANGED <<agentVars, tasks, socketIO, listeners, channels, suspended, guiVars>>

\* --- DELETE /central-channels/:channelId/messages ---
ClearChannelMessages(channelId) ==
  /\ LET request == NewRequest("clear_messages", channelId, Missing, NoBody)
     IN IF validateUuid(channelId) = Missing
        THEN /\ requests' =
                  Append(requests, Respond(request, HttpBadRequest, "validation"))
             /\ log' = Append(log, Responded(Len(requests) + 1, HttpBadRequest))
        ELSE /\ requests' =
                  Append(requests, [request EXCEPT !.pc = "clearChannelMessages"])
             /\ log' = log
  /\ UNCHANGED <<agentVars, tasks, socketIO, listeners, storeVars, suspended, guiVars>>

ClearChannelMessagesSettles(r, outcome) ==
  /\ Serving(r, "clearChannelMessages")
  /\ IF outcome = "resolved"
     THEN /\ messageRows' = {row \in messageRows : row.channelId # requests[r].channelId}
          /\ requests' = [requests EXCEPT ![r] =
               Published(@, "channel_cleared", HttpNoContent)]
          /\ log' = log \o <<Entry("deleted", r, "messages", requests[r].channelId)>>
                        \o Publish(r, "channel_cleared", requests[r].channelId,
                                   "channelCleared", HttpNoContent)
     ELSE /\ Failed(r, "clearChannelMessages")
          /\ messageRows' = messageRows
  /\ UNCHANGED <<agentVars, tasks, socketIO, listeners, channels, suspended, guiVars>>

\* --- DELETE /central-channels/:channelId ---
DeleteChannel(channelId) ==
  /\ LET request == NewRequest("delete_channel", channelId, Missing, NoBody)
     IN IF validateUuid(channelId) = Missing
        THEN /\ requests' =
                  Append(requests, Respond(request, HttpBadRequest, "validation"))
             /\ log' = Append(log, Responded(Len(requests) + 1, HttpBadRequest))
        ELSE /\ requests' =
                  Append(requests, [request EXCEPT !.pc = "getMessagesForChannel"])
             /\ log' = log
  /\ UNCHANGED <<agentVars, tasks, socketIO, listeners, storeVars, suspended, guiVars>>

\* the count of the channel's messages, for the log line
GetMessagesForChannelSettles(r, outcome) ==
  /\ Serving(r, "getMessagesForChannel")
  /\ IF outcome = "resolved"
     THEN /\ requests' = [requests EXCEPT ![r].pc = "deleteChannel"]
          /\ log' = log
     ELSE Failed(r, "getMessagesForChannel")
  /\ UNCHANGED <<agentVars, tasks, socketIO, listeners, storeVars, suspended, guiVars>>

\* deleteChannel settles; the channel's messages go with it
DeleteChannelSettles(r, outcome) ==
  /\ Serving(r, "deleteChannel")
  /\ IF outcome = "resolved"
     THEN /\ channels' = {channel \in channels : channel.id # requests[r].channelId}
          /\ messageRows' = {row \in messageRows : row.channelId # requests[r].channelId}
          /\ requests' = [requests EXCEPT ![r] =
               Published(@, "channel_cleared", HttpNoContent)]
          /\ log' = log \o <<Entry("deleted", r, "channel", requests[r].channelId)>>
                        \o Publish(r, "channel_cleared", requests[r].channelId,
                                   "channelDeleted", HttpNoContent)
     ELSE /\ Failed(r, "deleteChannel")
          /\ UNCHANGED storeVars
  /\ UNCHANGED <<agentVars, tasks, socketIO, listeners, suspended, guiVars>>

\* --- the process around the router ---
\* the server sets up its socket server
SetupSocketIO ==
  /\ ~socketIO
  /\ socketIO' = TRUE
  /\ UNCHANGED <<agentVars, tasks, listeners, storeVars, requests, log, suspended, guiVars>>

\* MessageBusService.start for another agent of the process
StartOtherService ==
  /\ ServiceListener(OtherAgentId) \notin {listeners["new_message"][i] :
                                            i \in 1..Len(listeners["new_message"])}
  /\ listeners' = on(on(listeners, "new_message", ServiceListener(OtherAgentId)),
                     "server_agent_update", ServiceListener(OtherAgentId))
  /\ UNCHANGED <<agentVars, tasks, socketIO, storeVars, requests, log, suspended, guiVars>>

\* other code of the process registers a listener, which may throw
\* when it is called
RegisterListener(event, throws) ==
  /\ \A e \in BusEvents : \A i \in 1..Len(listeners[e]) : listeners[e][i].kind # "other"
  /\ listeners' = on(listeners, event, OtherListener(throws))
  /\ UNCHANGED <<agentVars, tasks, socketIO, storeVars, requests, log, suspended, guiVars>>

\* --- the requests the router receives ---
DefaultBody ==
  [author_id |-> UserId, content |-> <<"hi">>, server_id |-> DEFAULT_SERVER_ID,
   metadata |-> NoMetadata, raw_message |-> NoRawMessage]

PostBodies ==
  { [DefaultBody EXCEPT !.metadata = metadata] :
      metadata \in {m \in Metadatas : m.channelType = "" /\ m.channel_type = ""} }
  \cup { [DefaultBody EXCEPT !.server_id = <<"s1">>] }
  \cup { [DefaultBody EXCEPT !.server_id = server_id] :
           server_id \in {<<"s2">>, ZeroText, Missing} }
  \cup { [DefaultBody EXCEPT !.author_id = Malformed] }
  \cup { [DefaultBody EXCEPT !.content = content] : content \in {Missing, EmptyText} }

\* the POSTs the router receives: every body on a channel id, and a body
\* that lacks nothing on a text that is no channel id
PostInputs ==
  { <<(<<"c1">>), body>> : body \in PostBodies } \cup { <<Malformed, DefaultBody>> }

ChannelParams == {<<"c1">>, Malformed}
MessageParams == {MessageIds[1], Malformed}
Outcomes == {"resolved", "rejected"}

\* the handler of POST /central-channels/:channelId/messages after the
\* arrival of the request
Posting ==
  \/ \E r \in Requests, outcome \in Outcomes : GetChannelDetailsSettles(r, outcome)
  \/ \E r \in Requests, outcome \in Outcomes : GetServersSettles(r, outcome)
  \/ \E r \in Requests, outcome \in Outcomes : CreateChannelSettles(r, outcome)
  \/ \E r \in Requests, outcome \in Outcomes : CreateMessageSettles(r, outcome)

\* the handlers of the three DELETE routes after the arrival of the request
Deleting ==
  \/ \E r \in Requests, outcome \in Outcomes : DeleteMessageSettles(r, outcome)
  \/ \E r \in Requests, outcome \in Outcomes : ClearChannelMessagesSettles(r, outcome)
  \/ \E r \in Requests, outcome \in Outcomes : GetMessagesForChannelSettles(r, outcome)
  \/ \E r \in Requests, outcome \in Outcomes : DeleteChannelSettles(r, outcome)

Process == SetupSocketIO \/ connectToMessageBus \/ StartOtherService

\* --- the POST route with the agents' services on the bus ---
NextHttp ==
  \/ \E input \in PostInputs :
       Len(requests) < MaxRequests /\ PostMessage(input[1], input[2])
  \/ Posting
  \/ Process

SpecHttp == Init /\ [][NextHttp]_vars

\* --- the DELETE routes, on channels that POSTs filled ---
\* number of HTTP requests the router handles (SpecDelete)
MaxDeleteRequests == 2

DeleteArrives ==
  \/ \E body \in {b \in PostBodies : b.server_id = <<"s1">> /\ PostIsValid(<<"c1">>, b)
                                      /\ b.metadata = NoMetadata} :
       Len(requests) < MaxDeleteRequests /\ PostMessage(<<"c1">>, body)
  \/ \E channelId \in ChannelParams, messageId \in MessageParams :
       Len(requests) < MaxDeleteRequests /\ DeleteMessage(channelId, messageId)
  \/ \E channelId \in ChannelParams :
       Len(requests) < MaxDeleteRequests /\ ClearChannelMessages(channelId)
  \/ \E channelId \in ChannelParams :
       Len(requests) < MaxDeleteRequests /\ DeleteChannel(channelId)

NextDelete == DeleteArrives \/ Posting \/ Deleting \/ Process

SpecDelete == Init /\ [][NextDelete]_vars

\* --- one request, with a listener of other code on the bus as well ---
\* number of HTTP requests the router handles (SpecThrow)
MaxThrowRequests == 1

ThrowArrives ==
  \/ \E body \in {b \in PostBodies : PostIsValid(<<"c1">>, b) /\ b.metadata = NoMetadata} :
       Len(requests) < MaxThrowRequests /\ PostMessage(<<"c1">>, body)
  \/ Len(requests) < MaxThrowRequests /\ DeleteMessage(<<"c1">>, MessageIds[1])
  \/ Len(requests) < MaxThrowRequests /\ ClearChannelMessages(<<"c1">>)
  \/ Len(requests) < MaxThrowRequests /\ DeleteChannel(<<"c1">>)

NextThrow ==
  \/ ThrowArrives
  \/ Posting
  \/ Deleting
  \/ Process
  \/ \E event \in BusEvents \ {"server_agent_update"}, throws \in BOOLEAN :
       RegisterListener(event, throws)

SpecThrow == Init /\ [][NextThrow]_vars

\* ------------------------------------------------------------------------
\* Properties of the channels router
\* ------------------------------------------------------------------------
\* the places of the history where request r did something of this kind
EntriesOf(r, kind) == {i \in 1..Len(log) : log[i].req = r /\ log[i].kind = kind}

\* the POSTs whose handler found no channel and went on to create it
AutoCreating(r) ==
  r \in Requests /\ requests[r].route = "post_message" /\ requests[r].autoCreate

\* C11: a POST that finds no channel persists its message only after its own
\* createChannel succeeded; when the server does not exist or the creation
\* of the channel fails, it ends with an error status and produces no
\* message row, no new_message event and no socket broadcast.
C11_ChannelBeforeMessage ==
  \A r \in Requests :
    AutoCreating(r) =>
      /\ \A i \in EntriesOf(r, "persist") :
           \E j \in EntriesOf(r, "channel_created") : j < i
      /\ (\/ requests[r].body.server_id \notin CentralServerIds
          \/ requests[r].failure \in {"no_server", "createChannel"}
          \/ (requests[r].pc = "responded" /\ EntriesOf(r, "channel_created") = {}))
         => /\ requests[r].pc = "responded" => requests[r].status = HttpServerError
            /\ requests[r].stored = Missing
            /\ EntriesOf(r, "persist") = {}
            /\ EntriesOf(r, "emit") = {}
            /\ EntriesOf(r, "socket") = {}

C11_Witness ==
  \E r, q \in Requests :
    /\ AutoCreating(r) /\ requests[r].status = HttpCreated
    /\ EntriesOf(r, "channel_created") # {} /\ EntriesOf(r, "persist") # {}
    /\ AutoCreating(q) /\ requests[q].failure = "no_server"

\* the texts a POST needs: ids in the UUID format (or the reserved default
\* id as the server) and a content that is not empty
LacksField(request) ==
  \/ request.channelId \notin WellFormed
  \/ request.body.author_id \notin WellFormed
  \/ request.body.content \in {Missing, EmptyText}
  \/ request.body.server_id \notin WellFormed \cup {DEFAULT_SERVER_ID}

\* C12: a POST with an invalid channelId or author_id, without content or
\* with a server_id that is neither the default id nor a valid id is
\* answered 400 at once: no channel lookup or creation, no message, no bus
\* event, no socket event.
C12_InvalidPostHasNoEffect ==
  \A r \in Requests :
    requests[r].route = "post_message" /\ LacksField(requests[r]) =>
      /\ requests[r].pc = "responded"
      /\ requests[r].status = HttpBadRequest
      /\ ~requests[r].autoCreate
      /\ requests[r].stored = Missing
      /\ \A i \in 1..Len(log) : log[i].req = r => log[i].kind = "respond"
      /\ \A row \in messageRows :
           row.authorId \in WellFormed /\ row.content \notin {Missing, EmptyText}

C12_Witness ==
  \E r, q \in Requests :
    /\ requests[r].route = "post_message" /\ requests[q].route = "post_message"
    /\ requests[r].body.content = EmptyText /\ requests[r].status = HttpBadRequest
    /\ requests[q].channelId = Malformed /\ requests[q].status = HttpBadRequest

\* a POST of the scenario that was answered: author and channel are valid
\* ids, the content is "hi", and the server is the given text
ScenarioPost(r, server_id) ==
  /\ r \in Requests
  /\ requests[r].route = "post_message"
  /\ requests[r].channelId \in WellFormed
  /\ requests[r].body.author_id \in WellFormed
  /\ requests[r].body.content = <<"hi">>
  /\ requests[r].body.server_id = server_id
  /\ requests[r].pc = "responded"

\* what the scenario expects after the response
ScenarioOutcome(r) ==
  /\ requests[r].status = HttpCreated
  /\ \E channel \in channels :
       /\ channel.id = requests[r].channelId
       /\ channel.type =
            IF \/ requests[r].body.metadata.isDm
               \/ requests[r].body.metadata.channelType = "DM"
               \/ requests[r].body.metadata.channel_type = "DM"
            THEN "DM" ELSE "GROUP"
  /\ \E row \in messageRows : row.id = requests[r].stored
  /\ \E i \in EntriesOf(r, "emit") :
       log[i].name = "new_message" /\ log[i].id = requests[r].stored

Appended == SubSeq(log', Len(log) + 1, Len(log'))
Skeleton(entries) == SelectSeq(entries, LAMBDA entry : entry.kind # "listener")
Kinds(entries) == [i \in 1..Len(entries) |-> entries[i].kind]

\* C14: the step that answers a POST with 201 does exactly this, in this
\* order: persist the message, emit one new_message, broadcast one
\* messageBroadcast to the channel's room when there is a socket server,
\* respond 201; all of them carry the id of the persisted message, and a
\* new_message event is only ever emitted for a persisted message.
C14_PersistEmitBroadcastRespond ==
  [][ /\ \A r \in Requests :
           requests[r].status = 0 /\ requests'[r].status = HttpCreated =>
             LET id == requests'[r].stored
                 done == Skeleton(Appended)
             IN /\ Kinds(done) = <<"persist", "emit">>
                                   \o (IF socketIO THEN <<"socket">> ELSE <<>>)
                                   \o <<"respond">>
                /\ \A i \in 1..Len(done) :
                     /\ done[i].req = r
                     /\ done[i].kind # "respond" => done[i].id = id
                     /\ done[i].kind = "emit" => done[i].name = "new_message"
                     /\ done[i].kind = "socket" =>
                          /\ done[i].name = "messageBroadcast"
                          /\ done[i].channel = requests[r].channelId
                     /\ done[i].kind = "respond" => done[i].status = HttpCreated
                /\ \E row \in messageRows' \ messageRows : row.id = id
                /\ \A i \in 1..Len(log) : log[i].kind \in {"persist", "emit"} => log[i].id # id
      /\ \A i \in 1..Len(log') :
           log'[i].kind = "emit" /\ log'[i].name = "new_message" =>
             \E j \in 1..(i - 1) : log'[j].kind = "persist" /\ log'[j].id = log'[i].id
    ]_vars

C14_Witness ==
  \E r \in Requests :
    /\ requests[r].status = HttpCreated
    /\ EntriesOf(r, "socket") # {}
    /\ \E i \in EntriesOf(r, "listener") : log[i].to = ServiceListener(AgentId)
    /\ \E q \in Requests : requests[q].status = HttpCreated /\ EntriesOf(q, "socket") = {}

\* the listeners of an event that throw, by their place in the list
Throwers(event) == {i \in 1..Len(listeners[event]) : listeners[event][i].throws}
FirstThrower(event) == CHOOSE i \in Throwers(event) : \A j \in Throwers(event) : i <= j

\* the listeners that the appended part of the history shows as called
Called == [i \in 1..Len(SelectSeq(Appended, LAMBDA entry : entry.kind = "listener")) |->
             SelectSeq(Appended, LAMBDA entry : entry.kind = "listener")[i].to]

\* C15: when a new_message listener throws during the emit of a POST, the
\* message is persisted all the same, the listeners registered after the
\* throwing one are not called, no messageBroadcast is sent and the answer
\* is 500, not 201.
C15_ThrowingListener ==
  [][ \A r \in Requests :
        /\ requests[r].pc = "createMessage"
        /\ requests'[r].stored # Missing
        /\ Throwers("new_message") # {}
        => /\ requests'[r].status = HttpServerError
           /\ \E row \in messageRows' : row.id = requests'[r].stored
           /\ Called = SubSeq(listeners["new_message"], 1, FirstThrower("new_message"))
           /\ \A i \in 1..Len(Appended) : Appended[i].kind # "socket"
           /\ Len(tasks') - Len(tasks) =
                Cardinality({i \in 1..FirstThrower("new_message") :
                               listeners["new_message"][i] = ServiceListener(AgentId)})
    ]_vars

C15_Witness ==
  \E r \in Requests :
    /\ requests[r].route = "post_message"
    /\ requests[r].failure = "listener"
    /\ requests[r].status = HttpServerError
    /\ \E row \in messageRows : row.id = requests[r].stored
    /\ socketIO /\ EntriesOf(r, "socket") = {}
    /\ \E i \in Throwers("new_message") :
         /\ i < Len(listeners["new_message"])
         /\ listeners["new_message"][i + 1].kind = "service"
    /\ \A i \in EntriesOf(r, "listener") : log[i].to.kind # "service"

\* the places of the appended part where an event was emitted
Emits == {i \in 1..Len(Appended) : Appended[i].kind = "emit"}

\* C16: an emit calls the handler of every MessageBusService subscribed at
\* that moment exactly once, in the order of registration, before the
\* handler that emits goes on; a service that subscribes later is never
\* called for that event.
C16_SynchronousDispatch ==
  [][ /\ SubSeq(log', 1, Len(log)) = log
      /\ Cardinality(Emits) <= 1
      /\ \A i \in Emits :
           LET registered == listeners[Appended[i].name]
           IN /\ Called = registered
              /\ \A k \in 1..Len(registered) :
                   /\ Appended[i + k].kind = "listener"
                   /\ Appended[i + k].to = registered[k]
                   /\ Appended[i + k].name = Appended[i].name
                   /\ Appended[i + k].id = Appended[i].id
              /\ Appended[i].name = "new_message" =>
                   /\ Len(tasks') - Len(tasks) =
                        Cardinality({k \in 1..Len(registered) :
                                       registered[k] = ServiceListener(AgentId)})
                   /\ \A t \in (Len(tasks) + 1)..Len(tasks') :
                        /\ tasks'[t].msg = Appended[i].id
                        /\ tasks'[t].pc = "getChannelParticipants"
      /\ Emits = {} => Called = <<>> /\ tasks' = tasks
    ]_vars

C16_Witness ==
  \E i, j \in 1..Len(log) :
    /\ i + 2 < j
    /\ log[i].kind = "emit" /\ log[j].kind = "emit"
    /\ log[i + 1].kind = "listener" /\ log[i + 1].to = ServiceListener(OtherAgentId)
    /\ log[i + 2].kind # "listener"
    /\ j + 2 <= Len(log)
    /\ log[j + 1].kind = "listener" /\ log[j + 1].to = ServiceListener(OtherAgentId)
    /\ log[j + 2].kind = "listener" /\ log[j + 2].to = ServiceListener(AgentId)
    /\ Len(tasks) = 1

\* --- the DELETE routes ---
DeleteRoutes == {"delete_message", "clear_messages", "delete_channel"}
\* the bus event, the socket event and the id each route announces
BusEventOf(route) == IF route = "delete_message" THEN "message_deleted" ELSE "channel_cleared"
SocketEventOf(route) ==
  IF route = "delete_message" THEN "messageDeleted"
  ELSE IF route = "clear_messages" THEN "channelCleared" ELSE "channelDeleted"
AnnouncedId(request) ==
  IF request.route = "delete_message" THEN request.messageId ELSE request.channelId

\* C18 as stated: a DELETE answered 204 has emitted its bus event exactly
\* once, after the database operation, followed by the matching socket
\* event and then the response; a DELETE whose database operation failed
\* is answered 500 without a bus event or a socket event.
C18_DeleteAnnouncedOnBusAndSocket ==
  \A r \in Requests :
    requests[r].route \in DeleteRoutes /\ requests[r].pc = "responded" =>
      /\ requests[r].status = HttpNoContent =>
           \E d \in EntriesOf(r, "deleted"), e \in EntriesOf(r, "emit"),
              k \in EntriesOf(r, "socket"), a \in EntriesOf(r, "respond") :
             /\ d < e /\ e < k /\ k < a
             /\ EntriesOf(r, "emit") = {e} /\ EntriesOf(r, "socket") = {k}
             /\ log[e].name = BusEventOf(requests[r].route)
             /\ log[e].id = AnnouncedId(requests[r])
             /\ log[k].name = SocketEventOf(requests[r].route)
      /\ requests[r].status = HttpServerError =>
           EntriesOf(r, "emit") = {} /\ EntriesOf(r, "socket") = {}

\* C18 amended: the step that answers a DELETE with 204 does exactly this,
\* in this order: the database operation, one emit of the route's bus event
\* (channel_cleared with the channel id, message_deleted with the message
\* and channel ids), the matching socket event when there is a socket
\* server, the response; a DELETE whose database operation failed is
\* answered 500 without a bus event or a socket event.
C18_DeleteAnnouncedAfterDatabase ==
  [][ \A r \in Requests :
        requests[r].route \in DeleteRoutes /\ requests[r].status = 0
          /\ requests'[r].status # 0 =>
          LET done == Skeleton(Appended)
          IN IF requests'[r].status = HttpNoContent
             THEN /\ Kinds(done) = <<"deleted", "emit">>
                                     \o (IF socketIO THEN <<"socket">> ELSE <<>>)
                                     \o <<"respond">>
                  /\ EntriesOf(r, "emit") = {} /\ EntriesOf(r, "socket") = {}
                  /\ \A i \in 1..Len(done) :
                       /\ done[i].req = r
                       /\ done[i].kind = "emit" =>
                            /\ done[i].name = BusEventOf(requests[r].route)
                            /\ done[i].id = AnnouncedId(requests[r])
                            /\ done[i].channel = requests[r].channelId
                       /\ done[i].kind = "socket" =>
                            /\ done[i].name = SocketEventOf(requests[r].route)
                            /\ done[i].channel = requests[r].channelId
                  /\ requests[r].route = "delete_message" =>
                       ~HasId(messageRows', requests[r].messageId)
                  /\ requests[r].route # "delete_message" =>
                       \A row \in messageRows' : row.channelId # requests[r].channelId
                  /\ requests[r].route = "delete_channel" =>
                       ~HasId(channels', requests[r].channelId)
             ELSE /\ requests'[r].status = HttpServerError
                  /\ Kinds(Appended) = <<"respond">>
                  /\ EntriesOf(r, "emit") = {} /\ EntriesOf(r, "socket") = {}
                  /\ UNCHANGED storeVars
    ]_vars

C18_Witness ==
  \E r, q \in Requests :
    /\ requests[r].route = "delete_channel" /\ requests[r].status = HttpNoContent
    /\ EntriesOf(r, "socket") # {}
    /\ requests[q].route \in DeleteRoutes /\ requests[q].status = HttpServerError
    /\ requests[q].failure \in {"deleteMessage", "clearChannelMessages", "deleteChannel"}

\* ------------------------------------------------------------------------
\* The router and the agent's service together: the messages that users
\* POST reach the service over the bus and are handled while the router
\* goes on serving
\* ------------------------------------------------------------------------
\* number of HTTP requests the router handles (SpecFlow)
MaxFlowRequests == 2

\* the handlings the event loop can resume: each call of the handler is a
\* promise chain of its own, so a handling waits for its own awaited call
\* only
Running_Serial ==
  {t \in Tasks \ suspended : \A u \in Tasks : u < t => tasks[u].pc = "done"}
Running == Tasks \ suspended

\* the call that a handling awaits never settles
Suspend(t) ==
  /\ t \in Tasks \ suspended
  /\ tasks[t].pc # "done"
  /\ suspended' = suspended \cup {t}
  /\ UNCHANGED <<agentVars, tasks, socketIO, listeners, storeVars, requests, log, guiVars>>

\* the POSTs of the users' messages of CentralMessages
UserMessages == {m \in CentralMessages : m.author_id = UserId}
UserBodies ==
  {[DefaultBody EXCEPT !.author_id = m.author_id, !.server_id = m.server_id] :
     m \in UserMessages}
Posts == {r \in Requests : requests[r].route = "post_message"}

FlowArrives ==
  \/ \E m \in UserMessages, body \in UserBodies :
       /\ Len(requests) < MaxFlowRequests
       /\ Cardinality(Posts) < Cardinality(UserMessages)
       /\ PostMessage(m.channel_id, body)
  \/ \E m \in UserMessages :
       Len(requests) < MaxFlowRequests /\ DeleteChannel(m.channel_id)

FlowDeleting ==
  \/ \E r \in Requests, outcome \in Outcomes : GetMessagesForChannelSettles(r, outcome)
  \/ \E r \in Requests, outcome \in Outcomes : DeleteChannelSettles(r, outcome)

FlowHandling ==
  \/ \E t \in Running, response \in ParticipantResponses : ParticipantsFetched(t, response)
  \/ \E t \in Running : EnsureWorldResolves(t)
  \/ \E t \in Running, error \in ErrorMessages : EnsureWorldRejects(t, error)
  \/ \E t \in Running : EnsureRoomResolves(t)
  \/ \E t \in Running, error \in ErrorMessages : EnsureRoomRejects(t, error)
  \/ \E t \in Running : GetEntityResolves(t)
  \/ \E t \in Running : CreateEntityResolves(t)
  \/ \E t \in Running : GetMemoryResolves(t)
  \/ \E t \in Running : AwaitedCallRejects(t)
  \/ \E t \in Running : RuntimeCreatesMemory(t)
  \/ \E t \in Running : EmitEventResolves(t)

\* one handling is the suspended one
FlowSuspends ==
  \E t \in Tasks : suspended = {} /\ Suspend(t)

NextFlow == Startup \/ FlowArrives \/ Posting \/ FlowDeleting \/ FlowHandling \/ FlowSuspends

SpecFlow == Init /\ [][NextFlow]_vars

\* every awaited call settles, those of suspended handlings excepted, and
\* the runtime runs its MESSAGE_RECEIVED handler
SpecFlowFair ==
  SpecFlow /\ WF_vars(FlowHandling) /\ WF_vars(Posting) /\ WF_vars(FlowDeleting)

\* every handling but the suspended one has ended, and every request is
\* answered
AllSettled ==
  /\ \A t \in Tasks : tasks[t].pc = "done" \/ t \in suspended
  /\ \A r \in Requests : requests[r].pc = "responded"

\* C17: no head-of-line blocking: whatever handling is suspended forever at
\* its awaited call, every other handling runs to its end and every HTTP
\* request, the ones that emitted the events included, is answered: the
\* system always comes to a state where only the suspended handling is
\* unfinished.
C17_NoHeadOfLineBlocking == []<>AllSettled

C17_Witness ==
  \E t, u \in Tasks :
    /\ t < u
    /\ t \in suspended /\ tasks[t].pc # "done"
    /\ tasks[u].pc = "done" /\ tasks[u].outcome = "emitted"
    /\ \A r \in Requests : requests[r].status = HttpCreated

\* channel_cleared was emitted for the channel after the message was
\* persisted
ClearedAfter(channelId, messageId) ==
  \E i, j \in 1..Len(log) :
    /\ i < j
    /\ log[i].kind = "persist" /\ log[i].id = messageId
    /\ log[j].kind = "emit" /\ log[j].name = "channel_cleared" /\ log[j].id = channelId

\* C19: once the router and the service have nothing left to do, no agent
\* Memory refers to a central message of a channel for which
\* channel_cleared was emitted after the message was stored: the service
\* purged it.
C19_ClearedChannelPurged ==
  AllSettled /\ suspended = {} =>
    \A memory \in memories :
      ~ClearedAfter(MessageOf(memory.sourceId).channel_id, memory.sourceId)

\* C20: the Memory the service builds for central message m has sourceId
\* m.id and an id that is a function of (agentId, m.id): distinct messages
\* give distinct ids, every Memory stored maps back to exactly one central
\* message, and another agent's Memory for the same message is another row.
C20_MemoryMapsToOneMessage ==
  /\ \A m \in CentralMessages :
       /\ createAgentMemory(m).sourceId = m.id
       /\ createAgentMemory(m).agentId = AgentId
       /\ createAgentMemory(m).id = createUniqueUuid(AgentId, m.id)
       /\ createAgentMemory(m).id # createUniqueUuid(OtherAgentId, m.id)
  /\ \A m, n \in CentralMessages :
       createAgentMemory(m).id = createAgentMemory(n).id <=> m.id = n.id
  /\ \A memory \in memories :
       /\ Cardinality({m \in CentralMessages : m.id = memory.sourceId}) = 1
       /\ memory = createAgentMemory(MessageOf(memory.sourceId))
  /\ \A m \in CentralMessages :
       Cardinality({memory \in memories : memory.sourceId = m.id}) <= 1

C20_Witness ==
  /\ Cardinality(memories) = 2
  /\ \E t, u \in Tasks :
       /\ tasks[t].msg # tasks[u].msg
       /\ tasks[t].outcome = "emitted" /\ tasks[u].outcome = "emitted"

\* ------------------------------------------------------------------------
\* GET /central-channels/:channelId/messages and the client's message list
\* ------------------------------------------------------------------------
HttpOk == 200

\* { ...a, ...b }: the fields of a, those of b added or put over them
Spread(a, b) ==
  [k \in DOMAIN a \cup DOMAIN b |-> IF k \in DOMAIN b THEN b[k] ELSE a[k]]

\* JSON.parse throws on the stored rawMessage
ParseThrows(msg) == msg.rawMessage.form = "text"

\* a message as the route returns it: every field of the row, with the
\* thought and the actions of rawMessage added to its metadata (the rows
\* of the model carry no timestamps)
messagesForGui_ContentFromRaw(msg) ==
  Spread(msg, [content |-> msg.rawMessage.thought,
               metadata |-> Spread(msg.metadata, [thought |-> msg.rawMessage.thought,
                                                  actions |-> msg.rawMessage.actions])])
messagesForGui(msg) ==
  Spread(msg, [metadata |-> Spread(msg.metadata, [thought |-> msg.rawMessage.thought,
                                                  actions |-> msg.rawMessage.actions])])

\* getEntityId(): the central id of the user of the client
currentClientCentralId == UserId

transformServerMessageToUiMessage(sm) ==
  LET isAgent == sm.authorId # currentClientCentralId
  IN [ id |-> sm.id,
       text |-> sm.content,
       senderId |-> sm.authorId,
       isAgent |-> isAgent,
       thought |-> IF isAgent THEN sm.metadata.thought ELSE Missing,
       actions |-> IF isAgent THEN sm.metadata.actions ELSE Missing,
       channelId |-> sm.channelId ]

Fetches == 1..Len(fetches)

\* fetchMessages without beforeTimestamp: the client asks for the messages
\* of the channel
fetchMessages(channelId) ==
  /\ channelId # Missing
  /\ fetches' = Append(fetches, [channelId |-> channelId, pc |-> "requested",
                                 status |-> 0, messages |-> {}])
  /\ UNCHANGED <<agentVars, tasks, socketIO, listeners, storeVars, requests, log,
                 suspended, uiMessages, relays, hookVars, pluginVars>>

\* the route: 400 on a channel id that is none, 500 when the database call
\* or the parsing of a rawMessage throws, otherwise the messages of the
\* channel
GetChannelMessages(f, outcome) ==
  /\ f \in Fetches
  /\ fetches[f].pc = "requested"
  /\ LET channelId == validateUuid(fetches[f].channelId)
         messages == {msg \in messageRows : msg.channelId = channelId}
     IN fetches' = [fetches EXCEPT ![f] =
          IF channelId = Missing
          THEN [@ EXCEPT !.pc = "responded", !.status = HttpBadRequest]
          ELSE IF outcome = "rejected" \/ \E msg \in messages : ParseThrows(msg)
          THEN [@ EXCEPT !.pc = "responded", !.status = HttpServerError]
          ELSE [@ EXCEPT !.pc = "responded", !.status = HttpOk,
                         !.messages = {messagesForGui(msg) : msg \in messages}]]
  /\ UNCHANGED <<agentVars, tasks, socketIO, listeners, storeVars, requests, log,
                 suspended, uiMessages, relays, hookVars, pluginVars>>

\* fetchMessages after the response: the transformed messages replace the
\* list; an error response leaves the list as it is
MessagesFetched(f) ==
  /\ f \in Fetches
  /\ fetches[f].pc = "responded"
  /\ fetches' = [fetches EXCEPT ![f].pc = "done"]
  /\ uiMessages' =
       IF fetches[f].status = HttpOk
       THEN {transformServerMessageToUiMessage(sm) : sm \in fetches[f].messages}
       ELSE uiMessages
  /\ UNCHANGED <<agentVars, tasks, socketIO, listeners, storeVars, requests, log,
                 suspended, relays, hookVars, pluginVars>>

\* --- a client that posts messages and loads the channel ---
\* number of POSTs (SpecRoundTrip)
MaxRoundTripRequests == 2
\* number of loads of the message list (SpecRoundTrip)
MaxFetches == 1

\* a plain text of the user, a padded text of an agent with a thought in
\* its raw_message, and a text of the user whose raw_message is no JSON
RoundTripBodies ==
  { [DefaultBody EXCEPT !.server_id = <<"s1">>, !.content = input[1],
                        !.raw_message = input[2], !.author_id = input[3]] :
      input \in { <<(<<"hi">>), NoRawMessage, UserId>>,
                  <<(<<" ", "h", "i", "\n">>), CHOOSE raw \in RawMessages : raw.form = "object",
                    OtherAgentId>>,
                  <<(<<"hi">>), CHOOSE raw \in RawMessages : raw.form = "text", UserId>> } }

RoundTripArrives ==
  \/ \E body \in RoundTripBodies :
       Len(requests) < MaxRoundTripRequests /\ PostMessage(<<"c1">>, body)
  \/ \E channelId \in ChannelParams :
       Len(fetches) < MaxFetches /\ fetchMessages(channelId)

Fetching ==
  \/ \E f \in Fetches, outcome \in Outcomes : GetChannelMessages(f, outcome)
  \/ \E f \in Fetches : MessagesFetched(f)

NextRoundTrip == RoundTripArrives \/ Posting \/ Fetching

SpecRoundTrip == Init /\ [][NextRoundTrip]_vars

\* the POST that persisted the message of this id
PostOf(id) == {r \in Requests : requests[r].status = HttpCreated /\ requests[r].stored = id}

\* C21: a message accepted by POST .../messages with content c is shown by
\* the client, after GET .../messages and transformServerMessageToUiMessage,
\* with text c; the messages the route returns carry content c as well.
C21_ContentRoundTrip ==
  /\ \A f \in Fetches : \A sm \in fetches[f].messages :
       /\ PostOf(sm.id) # {}
       /\ \A r \in PostOf(sm.id) : sm.content = requests[r].body.content
  /\ \A ui \in uiMessages :
       /\ PostOf(ui.id) # {}
       /\ \A r \in PostOf(ui.id) : ui.text = requests[r].body.content

\* two posted messages, one of them with surrounding whitespace and a
\* rawMessage that has a thought, are in the client's list
C21_Witness ==
  /\ Cardinality(uiMessages) = 2
  /\ \E ui \in uiMessages : \E r \in PostOf(ui.id) :
       /\ requests[r].body.content = <<" ", "h", "i", "\n">>
       /\ requests[r].body.raw_message.form = "object"
       /\ ui.thought = <<"hm">>
       /\ ui.text = <<" ", "h", "i", "\n">>

\* ------------------------------------------------------------------------
\* The agent's replies while the central server refuses them
\* ------------------------------------------------------------------------
\* number of new_message events the service handles (SpecOutage)
MaxOutageDeliveries == 2

PostOutcomes == {"posted", "not_ok", "network_error"}
PostFailures == {"not_ok", "network_error"}

OutageDeliver ==
  \E message \in {m \in CentralMessages : m.author_id = UserId} :
    Len(tasks) < MaxOutageDeliveries /\ handleIncomingMessage(message)

\* the handling of a message whose channel lists the agent, on a runtime
\* whose calls resolve
OutageHandling ==
  \/ \E t \in Tasks :
       ParticipantsFetched(t, [kind |-> "ok", data |-> {UserId, AgentId}])
  \/ \E t \in Tasks : EnsureWorldResolves(t)
  \/ \E t \in Tasks : EnsureRoomResolves(t)
  \/ \E t \in Tasks : GetEntityResolves(t)
  \/ \E t \in Tasks : CreateEntityResolves(t)
  \/ \E t \in Tasks : GetMemoryResolves(t)
  \/ \E t \in Tasks : RuntimeCreatesMemory(t)
  \/ \E t \in Tasks : EmitEventResolves(t)

\* the reply of the agent, with every outcome of the POST
OutageReplying ==
  \/ \E t \in Tasks, content \in {c \in Contents : c.text = <<"h", "i">> /\ ~ChoseIgnore(c)} :
       RuntimeInvokesCallback(t, content)
  \/ \E t \in Tasks : GetRoomResolves(t)
  \/ \E t \in Tasks : GetWorldResolves(t)
  \/ \E t \in Tasks : GetOriginalMemoryResolves(t)
  \/ \E t \in Tasks, outcome \in PostOutcomes : PostSettles(t, outcome)

\* the service starts and learns that the agent is on the messages' server
OutageStartup ==
  \/ connectToMessageBus
  \/ fetchAgentServers([kind |-> "ok", servers |-> {m.server_id : m \in CentralMessages}])

NextOutage == OutageStartup \/ OutageDeliver \/ OutageHandling \/ OutageReplying

SpecOutage == Init /\ [][NextOutage]_vars

\* the reply POST of handling t failed
PostFailed(t) == t \in Tasks /\ tasks[t].cb.result \in PostFailures

\* C22: a reply POST that fails (network error or non-OK status) is only
\* logged: the callback has returned and the handling goes on to its normal
\* end, the service stays on the bus, the settling of a POST ends the
\* callback without another POST, and it touches no other handling.
C22_FailedPostOnlyLogged ==
  /\ [](\A t \in Tasks : PostFailed(t) =>
          /\ tasks[t].cb.pc = "idle"
          /\ ~tasks[t].escaped
          /\ tasks[t].outcome \in {"pending", "emitted"}
          /\ tasks[t].pc \in {"emitEvent", "done"}
          /\ subscribed)
  /\ [][\A t \in Tasks :
          (tasks[t].cb.pc = "post" /\ tasks'[t] # tasks[t]) =>
            /\ tasks'[t].cb.pc = "idle"
            /\ tasks'[t].cb.result \in PostOutcomes
            /\ posts' = posts
            /\ \A u \in Tasks \ {t} : tasks'[u] = tasks[u]]_vars

\* the POST of one reply failed on the network, the handling ended as
\* emitted, and the reply to the other message was posted
C22_Witness ==
  \E t, u \in Tasks :
    /\ tasks[t].cb.result = "network_error"
    /\ tasks[t].outcome = "emitted"
    /\ tasks[u].cb.result = "posted"
    /\ \E p \in posts : p.task = t
    /\ \E p \in posts : p.task = u
    /\ tasks[t].msg # tasks[u].msg

\* ------------------------------------------------------------------------
\* subscribedServers under the events of every agent
\* ------------------------------------------------------------------------
\* number of server_agent_update events on the bus (SpecOwnSet)
MaxUpdates == 2
\* number of new_message events the service handles (SpecOwnSet)
MaxOwnSetDeliveries == 1

Updates == {i \in 1..Len(log) : log[i].kind = "update"}

\* handleServerAgentUpdate, with the event and the set before and after it
\* in the history
ObservedUpdate(data) ==
  /\ subscribed
  /\ subscribedServers' = handleServerAgentUpdateResult(subscribedServers, data)
  /\ log' = Append(log, [kind |-> "update", data |-> data,
                         before |-> subscribedServers,
                         after |-> handleServerAgentUpdateResult(subscribedServers, data)])
  /\ UNCHANGED <<subscribed, fetchState, tasks, dbVars, posts, historyVars>>
  /\ UNCHANGED <<socketIO, listeners, storeVars, requests, suspended, guiVars>>

OwnSetEvents ==
  \/ \E data \in ServerAgentUpdates({m.server_id : m \in CentralMessages}) :
       Cardinality(Updates) < MaxUpdates /\ ObservedUpdate(data)
  \/ \E message \in {m \in CentralMessages : m.id = <<"m1">>} :
       Len(tasks) < MaxOwnSetDeliveries /\ handleIncomingMessage(message)

NextOwnSet == OutageStartup \/ OwnSetEvents \/ OutageHandling

SpecOwnSet == Init /\ [][NextOwnSet]_vars

\* an event for another agent, or of a type that is neither added nor
\* removed
ForeignUpdate(data) ==
  \/ data.agentId # AgentId
  \/ data.type \notin {"agent_added_to_server", "agent_removed_from_server"}

\* C23: a server_agent_update for another agent, or of another type than
\* agent_added_to_server / agent_removed_from_server, leaves the service's
\* subscribedServers as it was, and no step of the handling of a new_message
\* changes the set.
C23_SubscribedServersPrivate ==
  /\ [](\A i \in Updates :
          ForeignUpdate(log[i].data) => log[i].after = log[i].before)
  /\ [][<<tasks, dbVars, posts>>' # <<tasks, dbVars, posts>>
          => subscribedServers' = subscribedServers]_vars

\* the set held s1 when a removal of s1 for another agent and an update of
\* another type for this agent were handled, and a message of s1 was then
\* handled up to MESSAGE_RECEIVED
C23_Witness ==
  /\ \E i, j \in Updates :
       /\ log[i].data.agentId = OtherAgentId
       /\ log[i].data.type = "agent_removed_from_server"
       /\ log[i].data.serverId \in log[i].before
       /\ log[j].data.agentId = AgentId
       /\ log[j].data.type = "agent_renamed"
       /\ log[j].before # {}
  /\ \E t \in Tasks : tasks[t].outcome = "emitted"
  /\ subscribedServers # {}

\* ------------------------------------------------------------------------
\* The channel that a POST creates, over the metadata of the request
\* ------------------------------------------------------------------------
\* number of POSTs (SpecAutoCreate)
MaxAutoCreateRequests == 1

AutoCreateMetadatas ==
  [ isDm : BOOLEAN,
    channelType : {"", "DM"},
    channel_type : {"", "DM", "GROUP"},
    targetUserId : {Missing, AgentId, Malformed},
    recipientId : {Missing, OtherAgentId, Malformed} ]

AutoCreateArrives ==
  \E metadata \in AutoCreateMetadatas :
    /\ Len(requests) < MaxAutoCreateRequests
    /\ PostMessage(<<"c1">>, [DefaultBody EXCEPT !.metadata = metadata])

NextAutoCreate == AutoCreateArrives \/ Posting

SpecAutoCreate == Init /\ [][NextAutoCreate]_vars

\* the request that created the channel
CreatorOf(channel) ==
  {log[i].req : i \in {j \in 1..Len(log) :
      log[j].kind = "channel_created" /\ log[j].id = channel.id}}

\* C24: an auto-created channel is a DM exactly when the metadata of the
\* request has isDm, or channelType or channel_type equal to DM, and a GROUP
\* otherwise; its participants are the author and, exactly when it is a DM
\* and the target (targetUserId, else recipientId) is a valid id, the target.
C24_TypeAndParticipants ==
  \A channel \in channels : \A r \in CreatorOf(channel) :
    LET body == requests[r].body
        metadata == body.metadata
        dm == metadata.isDm \/ metadata.channelType = "DM" \/ metadata.channel_type = "DM"
        target == IF metadata.targetUserId \notin {Missing, EmptyText}
                  THEN metadata.targetUserId ELSE metadata.recipientId
    IN /\ channel.type = (IF dm THEN "DM" ELSE "GROUP")
       /\ body.author_id \in channel.participants
       /\ channel.participants \ {body.author_id} =
            (IF dm /\ target \in WellFormed THEN {target} ELSE {}) \ {body.author_id}

\* a DM whose second participant comes from recipientId
C24_Witness ==
  \E channel \in channels : \E r \in CreatorOf(channel) :
    /\ channel.type = "DM"
    /\ ~requests[r].body.metadata.isDm
    /\ requests[r].body.metadata.targetUserId = Missing
    /\ channel.participants = {UserId, OtherAgentId}

\* ------------------------------------------------------------------------
\* processSocketMessage: the relay of a client's socket message to the agent
\* ------------------------------------------------------------------------
\* number of socket messages (SpecSocket)
MaxRelays == 2
\* number of invocations of the reply callback per socket message
MaxRelayReplies == 1

\* the payloads of the message event: of the agent itself, without a text,
\* and of a user with and without attachments
RelayPayloads ==
  { [senderId |-> input[1], channelId |-> <<"c1">>, serverId |-> <<"s1">>,
     hasMessage |-> input[2], hasAttachments |-> input[3]] :
      input \in { <<AgentId, TRUE, FALSE>>, <<UserId, FALSE, FALSE>>,
                  <<UserId, TRUE, FALSE>>, <<UserId, TRUE, TRUE>> } }

Relays == 1..Len(relays)
Relaying(k, where) == k \in Relays /\ relays[k].pc = where

\* an event that goes out on the socket server: to a room, or to every
\* client when the room is none
Emission(name, room, action) == [name |-> name, room |-> room, action |-> action]

NewRelay(payload, traced) ==
  [ payload |-> payload,
    traced |-> traced,            \* tracer given and instrumentation enabled
    pc |-> "returned",
    settled |-> "resolved",       \* the promise of processSocketMessage
    span |-> "none",              \* none, active, ended
    spanStatus |-> "unset",
    calls |-> <<>>,               \* the calls made on the runtime, in order
    emitted |-> <<>>,             \* the events sent on the socket server, in order
    runtime |-> <<>>,             \* what the runtime did: outcomes and signals
    cb |-> "idle",                \* the reply callback
    replies |-> 0,
    completions |-> 0 ]

\* the relay before the message: every earlier one has returned and, where
\* the agent got the message, been completed
Quiet(k) ==
  /\ relays[k].settled # "pending"
  /\ relays[k].cb = "idle"
  /\ relays[k].pc = "running" => relays[k].completions > 0

\* processSocketMessage up to its first await
processSocketMessage(payload, traced) ==
  /\ \A k \in Relays : Quiet(k)
  /\ relays' = Append(relays,
       IF payload.senderId = AgentId \/ ~payload.hasMessage
       THEN NewRelay(payload, traced)
       ELSE [NewRelay(payload, traced) EXCEPT
               !.pc = "ensureConnection",
               !.settled = "pending",
               !.span = IF traced THEN "active" ELSE "none",
               !.calls = <<"ensureConnection">>])
  /\ UNCHANGED <<agentVars, tasks, socketIO, listeners, storeVars, requests, log,
                 suspended, fetches, uiMessages, hookVars, pluginVars>>

\* executeLogic has thrown: the instrumented path records the error, ends
\* the span and throws again; the direct path logs the error
ExecuteLogicThrows(relay) ==
  IF relay.traced
  THEN [relay EXCEPT !.pc = "failed", !.settled = "rejected", !.span = "ended",
                     !.spanStatus = "ERROR"]
  ELSE [relay EXCEPT !.pc = "failed", !.settled = "resolved"]

\* executeLogic builds the message and calls runtime.emitEvent without
\* awaiting it, and returns
ExecuteLogicReturns(relay) ==
  [relay EXCEPT !.pc = "running",
                !.calls = Append(@, "emitEvent"),
                !.settled = "resolved",
                !.span = IF relay.traced THEN "ended" ELSE "none",
                !.spanStatus = IF relay.traced THEN "OK" ELSE "unset"]

\* runtime.ensureConnection settles
EnsureConnectionSettles(k, outcome) ==
  /\ Relaying(k, "ensureConnection")
  /\ LET payload == relays[k].payload
         relay == [relays[k] EXCEPT !.runtime = Append(@, outcome)]
     IN IF outcome = "resolved"
        THEN /\ worlds' = IF HasId(worlds, SocketWorldOf(payload).id) THEN worlds
                          ELSE worlds \cup {SocketWorldOf(payload)}
             /\ rooms' = IF HasId(rooms, SocketRoomOf(payload).id) THEN rooms
                         ELSE rooms \cup {SocketRoomOf(payload)}
             /\ entities' = entities \cup {createUniqueUuid(AgentId, payload.senderId)}
             /\ relays' = [relays EXCEPT ![k] =
                  IF payload.hasAttachments THEN [relay EXCEPT !.pc = "processAttachments"]
                  ELSE ExecuteLogicReturns(relay)]
        ELSE /\ relays' = [relays EXCEPT ![k] = ExecuteLogicThrows(relay)]
             /\ UNCHANGED <<worlds, rooms, entities>>
  /\ UNCHANGED <<busVars, tasks, memories, posts, historyVars, socketIO, listeners,
                 storeVars, requests, log, suspended, fetches, uiMessages, hookVars, pluginVars>>

\* processAttachments settles
ProcessAttachmentsSettles(k, outcome) ==
  /\ Relaying(k, "processAttachments")
  /\ LET relay == [relays[k] EXCEPT !.runtime = Append(@, outcome)]
     IN relays' = [relays EXCEPT ![k] =
          IF outcome = "resolved" THEN ExecuteLogicReturns(relay)
          ELSE ExecuteLogicThrows(relay)]
  /\ UNCHANGED <<agentVars, tasks, socketIO, listeners, storeVars, requests, log,
                 suspended, fetches, uiMessages, hookVars, pluginVars>>

\* the runtime invokes the reply callback: the reply goes to the room of
\* the channel and to every client, then the callback stores its memory
RelayCallback(k) ==
  /\ Relaying(k, "running")
  /\ relays[k].cb = "idle"
  /\ relays[k].replies < MaxRelayReplies
  /\ relays' = [relays EXCEPT ![k] =
       [@ EXCEPT !.emitted = @ \o <<Emission("messageBroadcast", relays[k].payload.channelId, ""),
                                     Emission("messageBroadcast", Missing, "")>>,
                 !.calls = Append(@, "createMemory"),
                 !.runtime = Append(@, "callback"),
                 !.replies = @ + 1,
                 !.cb = "createMemory"]]
  /\ UNCHANGED <<agentVars, tasks, socketIO, listeners, storeVars, requests, log,
                 suspended, fetches, uiMessages, hookVars, pluginVars>>

\* runtime.createMemory settles inside the callback, which returns its
\* content to the runtime, or nothing after a rejection that it logged
RelayCreateMemorySettles(k, outcome) ==
  /\ k \in Relays
  /\ relays[k].cb = "createMemory"
  /\ relays' = [relays EXCEPT ![k].cb = "idle"]
  /\ UNCHANGED <<agentVars, tasks, socketIO, listeners, storeVars, requests, log,
                 suspended, fetches, uiMessages, hookVars, pluginVars>>

\* the runtime calls onComplete, once for a message
onComplete_ControlFirst(k) ==
  /\ Relaying(k, "running")
  /\ relays[k].completions = 0
  /\ relays' = [relays EXCEPT ![k] =
       [@ EXCEPT !.emitted = @ \o
                   <<Emission("controlMessage", relays[k].payload.channelId, "enable_input"),
                     Emission("messageComplete", relays[k].payload.channelId, "")>>,
                 !.runtime = Append(@, "complete"),
                 !.completions = @ + 1]]
  /\ UNCHANGED <<agentVars, tasks, socketIO, listeners, storeVars, requests, log,
                 suspended, fetches, uiMessages, hookVars, pluginVars>>
onComplete(k) ==
  /\ Relaying(k, "running")
  /\ relays[k].completions = 0
  /\ relays' = [relays EXCEPT ![k] =
       [@ EXCEPT !.emitted = @ \o
                   <<Emission("messageComplete", relays[k].payload.channelId, ""),
                     Emission("controlMessage", relays[k].payload.channelId, "enable_input")>>,
                 !.runtime = Append(@, "complete"),
                 !.completions = @ + 1]]
  /\ UNCHANGED <<agentVars, tasks, socketIO, listeners, storeVars, requests, log,
                 suspended, fetches, uiMessages, hookVars, pluginVars>>

NextSocket ==
  \/ \E payload \in RelayPayloads, traced \in BOOLEAN :
       Len(relays) < MaxRelays /\ processSocketMessage(payload, traced)
  \/ \E k \in Relays, outcome \in Outcomes : EnsureConnectionSettles(k, outcome)
  \/ \E k \in Relays, outcome \in Outcomes : ProcessAttachmentsSettles(k, outcome)
  \/ \E k \in Relays : RelayCallback(k)
  \/ \E k \in Relays, outcome \in Outcomes : RelayCreateMemorySettles(k, outcome)
  \/ \E k \in Relays : onComplete(k)

SpecSocket == Init /\ [][NextSocket]_vars

\* the completion events among the events a relay has sent
IsCompletionEvent(e) == e.name \in {"messageComplete", "controlMessage"}
CompletionEvents(k) == SelectSeq(relays[k].emitted, IsCompletionEvent)

\* C25: for every completion the runtime signals, messageComplete and then
\* controlMessage with action enable_input go to the room of the message's
\* channel, once each and in that order, and none of them goes out before
\* the completion is signalled.
C25_CompletionThenEnableInput ==
  \A k \in Relays :
    LET events == CompletionEvents(k)
    IN /\ Len(events) = 2 * relays[k].completions
       /\ \A i \in 1..Len(events) :
            /\ events[i].room = relays[k].payload.channelId
            /\ i % 2 = 1 => events[i].name = "messageComplete"
            /\ i % 2 = 0 => (events[i].name = "controlMessage"
                             /\ events[i].action = "enable_input")

\* a message that was answered and then completed
C25_Witness ==
  \E k \in Relays :
    /\ relays[k].completions = 1
    /\ relays[k].replies = 1
    /\ Len(relays[k].emitted) = 4
    /\ relays[k].emitted[3].name = "messageComplete"
    /\ relays[k].emitted[4].name = "controlMessage"

\* the same message took the instrumented path in k and the direct path in
\* d, and the runtime behaved alike for both
SamePayloadAndRuntime(k, d) ==
  /\ relays[k].traced /\ ~relays[d].traced
  /\ relays[k].payload = relays[d].payload
  /\ relays[k].runtime = relays[d].runtime
  /\ relays[k].settled # "pending" /\ relays[d].settled # "pending"
  /\ relays[k].cb = "idle" /\ relays[d].cb = "idle"

\* C26: with and without tracing, processSocketMessage makes the same
\* runtime calls and socket emissions and its promise settles the same way,
\* also when the agent processing throws; a span that was started is ended
\* when the promise settles.
C26_TracingIsTransparent ==
  /\ \A k, d \in Relays : SamePayloadAndRuntime(k, d) =>
       /\ relays[k].calls = relays[d].calls
       /\ relays[k].emitted = relays[d].emitted
       /\ relays[k].settled = relays[d].settled
  /\ \A k \in Relays :
       relays[k].traced /\ relays[k].settled # "pending" /\ relays[k].calls # <<>>
         => relays[k].span = "ended"

\* ------------------------------------------------------------------------
\* MessageBusService.stop
\* ------------------------------------------------------------------------
\* number of POSTs (SpecStop)
MaxStopRequests == 2

\* the bound handlers of a service object that static stop constructs for
\* the runtime: functions of their own, registered nowhere
FreshListener(agentId) == [kind |-> "fresh_service", agent |-> agentId, throws |-> FALSE]

\* internalMessageBus.off(event, listener): the listeners of the event
\* without the last registration of this listener
RECURSIVE Without(_, _)
Without(registered, listener) ==
  IF registered = <<>> THEN <<>>
  ELSE IF registered[Len(registered)] = listener
    THEN SubSeq(registered, 1, Len(registered) - 1)
    ELSE Append(Without(SubSeq(registered, 1, Len(registered) - 1), listener),
                registered[Len(registered)])
off(registered, event, listener) ==
  [registered EXCEPT ![event] = Without(@, listener)]

\* stop(): the instance takes its two bound handlers off the bus
stop(registered, listener) ==
  off(off(registered, "new_message", listener), "server_agent_update", listener)

Stopped == {i \in 1..Len(log) : log[i].kind = "stopped"}

\* static stop(runtime): a new service object is constructed and stopped
StaticStop ==
  /\ subscribed
  /\ Stopped = {}
  /\ listeners' = stop(listeners, FreshListener(AgentId))
  /\ subscribed' =
       \E i \in 1..Len(listeners'["new_message"]) :
         listeners'["new_message"][i] = ServiceListener(AgentId)
  /\ log' = Append(log, Entry("stopped", 0, "", AgentId))
  /\ UNCHANGED <<fetchState, subscribedServers, tasks, dbVars, posts, historyVars>>
  /\ UNCHANGED <<socketIO, storeVars, requests, suspended, guiVars>>

StopArrives ==
  \E body \in UserBodies :
    Len(requests) < MaxStopRequests /\ PostMessage(<<"c1">>, body)

NextStop == Startup \/ StaticStop \/ StopArrives \/ Posting \/ OutageHandling

SpecStop == Init /\ [][NextStop]_vars

\* the bus emitted the message of this id after the stop of the service
EmittedAfterStop(id) ==
  \E i \in Stopped : \E j \in 1..Len(log) :
    i < j /\ log[j].kind = "emit" /\ log[j].name = "new_message" /\ log[j].id = id

\* C27: after MessageBusService.stop(runtime) the service that start built
\* is off the bus: an emit after the stop calls no handler of the agent's
\* service and no MESSAGE_RECEIVED reaches the runtime for a message emitted
\* after the stop.
C27_StoppedServiceOffTheBus ==
  /\ \A i \in Stopped : \A j \in 1..Len(log) :
       i < j /\ log[j].kind = "listener" => log[j].to # ServiceListener(AgentId)
  /\ \A t \in Tasks : tasks[t].emitted => ~EmittedAfterStop(tasks[t].msg)
  /\ Stopped # {} => ~subscribed

\* ------------------------------------------------------------------------
\* Order and races of the handlings of one service
\* ------------------------------------------------------------------------
\* C28: MESSAGE_RECEIVED follows the order of the bus: when the handling of
\* a message emits MESSAGE_RECEIVED, no handling of another message that
\* the bus delivered later has emitted it already.
C28_DeliveryFollowsBusOrder ==
  [][\A t, u \in Tasks :
       (/\ t < u
        /\ tasks[t].msg # tasks[u].msg
        /\ ~tasks[t].emitted
        /\ tasks'[t].emitted)
       => ~tasks[u].emitted]_vars

\* C29: runtime.createEntity is invoked at most once for an author: no two
\* handlings have the call pending for the same author, and no handling has
\* it pending for an entity that another handling has created meanwhile.
C29_CreateEntityOnce ==
  \A t \in Tasks :
    At(t, "createEntity") =>
      /\ AuthorEntityId(Msg(t)) \notin entities
      /\ \A u \in Tasks \ {t} :
           At(u, "createEntity") => AuthorEntityId(Msg(u)) # AuthorEntityId(Msg(t))

\* C30: createChannel is invoked by at most one of the POSTs to a channel
\* that does not exist yet: no two requests have the call pending for the
\* same channel id, and no request has it pending for a channel that another
\* request has created meanwhile.
C30_ChannelCreatedOnce ==
  \A r \in Requests :
    Serving(r, "createChannel") =>
      /\ ~HasId(channels, requests[r].channelId)
      /\ \A q \in Requests \ {r} :
           Serving(q, "createChannel") => requests[q].channelId # requests[r].channelId

\* ------------------------------------------------------------------------
\* The service while the central server fails to answer its lookups
\* ------------------------------------------------------------------------
\* number of new_message events the service handles (SpecLookup)
MaxLookupDeliveries == 1

\* the participants arrive, with the response in the history
ObservedParticipants(t, response) ==
  /\ At(t, "getChannelParticipants")
  /\ tasks' = [tasks EXCEPT ![t] = AfterParticipants(t, response)]
  /\ log' = Append(log, [kind |-> "participants", task |-> t, response |-> response])
  /\ UNCHANGED <<busVars, dbVars, posts, historyVars>>
  /\ UNCHANGED <<socketIO, listeners, storeVars, requests, suspended, guiVars>>

\* fetchAgentServers from the arrival of the response on, with the response
\* and the set before it in the history
ObservedFetch(response) ==
  /\ fetchState = "pending"
  /\ subscribedServers' = fetchAgentServersResult(subscribedServers, response)
  /\ fetchState' = "settled"
  /\ log' = Append(log, [kind |-> "servers", response |-> response,
                         before |-> subscribedServers])
  /\ UNCHANGED <<subscribed, tasks, dbVars, posts, historyVars>>
  /\ UNCHANGED <<socketIO, listeners, storeVars, requests, suspended, guiVars>>

NextLookup ==
  \/ connectToMessageBus
  \/ \E response \in ServerListResponses({m.server_id : m \in CentralMessages}) :
       ObservedFetch(response)
  \/ \E data \in {d \in ServerAgentUpdates({m.server_id : m \in CentralMessages}) :
                     d.agentId = AgentId /\ d.type # "agent_renamed"} :
       handleServerAgentUpdate(data)
  \/ \E message \in {m \in CentralMessages : m.id = <<"m1">>} :
       Len(tasks) < MaxLookupDeliveries /\ handleIncomingMessage(message)
  \/ \E t \in Tasks, response \in ParticipantResponses : ObservedParticipants(t, response)
  \/ \E t \in Tasks : EnsureWorldResolves(t)
  \/ \E t \in Tasks : EnsureRoomResolves(t)
  \/ \E t \in Tasks : GetEntityResolves(t)
  \/ \E t \in Tasks : CreateEntityResolves(t)
  \/ \E t \in Tasks : GetMemoryResolves(t)
  \/ \E t \in Tasks : RuntimeCreatesMemory(t)
  \/ \E t \in Tasks : EmitEventResolves(t)

SpecLookup == Init /\ [][NextLookup]_vars

\* the lookups that failed
FailedLookups ==
  {i \in 1..Len(log) : log[i].kind = "participants" /\ log[i].response.kind # "ok"}
FailedFetches ==
  {i \in 1..Len(log) : log[i].kind = "servers" /\ log[i].response.kind # "ok"}
\* the rows that exist for the message of a handling
RowsFor(t) ==
  {w \in worlds : w.id = WorldOf(Msg(t)).id} \cup {r \in rooms : r.id = RoomOf(Msg(t)).id}

\* C31: a failed participant lookup counts as an empty list: the handling
\* ends as not_participant without a world, room or entity call, without
\* MESSAGE_RECEIVED and without an escaping exception, and the lookup is
\* made once; a failed fetch of the agent's servers leaves subscribedServers
\* as it was and the service on the bus.
C31_FailedLookupsDropQuietly ==
  /\ [](\A i \in FailedLookups :
          LET t == log[i].task
          IN /\ tasks[t].pc = "done"
             /\ tasks[t].outcome = "not_participant"
             /\ ~tasks[t].emitted
             /\ ~tasks[t].escaped
             /\ Cardinality({j \in 1..Len(log) :
                   log[j].kind = "participants" /\ log[j].task = t}) = 1)
  /\ []((\A t \in Tasks : \E i \in FailedLookups : log[i].task = t)
          => worlds = {} /\ rooms = {} /\ entities = {} /\ memories = {})
  /\ [][\A i \in FailedFetches' \ FailedFetches :
          subscribedServers' = log'[i].before /\ subscribed']_vars
  /\ [](FailedFetches # {} => subscribed)

\* the lookup of a message's participants failed on the network although
\* the agent is on the message's server, and the fetch of the servers
\* failed after an update had put a server into the set
C31_Witness ==
  /\ \E i \in FailedLookups :
       /\ log[i].response.kind = "network_error"
       /\ tasks[log[i].task].pc = "done"
       /\ Msg(log[i].task).server_id \in subscribedServers
  /\ \E i \in FailedFetches : log[i].before # {} /\ subscribedServers = log[i].before

\* ------------------------------------------------------------------------
\* The UPDATE_ROLE action of the bootstrap plugin
\* ------------------------------------------------------------------------
serverVars == <<socketIO, listeners, storeVars, requests, log, suspended>>

RoleEntities == {"e1", "e2", "e3"}
Role == {"OWNER", "ADMIN", "NONE"}
\* world.metadata.roles[id] of an id without an entry
NoRole == "undefined"
\* runtime.getWorld finds nothing, or WORLD_ID is not set
NoWorld == {}
\* world.metadata.roles; a world without roles gets the empty object
RoleMaps == [RoleEntities -> Role \cup {NoRole}]
NoRoles == [e \in RoleEntities |-> NoRole]
\* the roles of the world runtime.getWorld finds
StoredRoles == CHOOSE roles \in worldRoles : TRUE

canModifyRole_OwnersAll(currentRole, targetRole, newRole) ==
  CASE currentRole = "OWNER" -> TRUE
    [] currentRole = "ADMIN" -> newRole # "OWNER"
    [] OTHER -> FALSE
canModifyRole(currentRole, targetRole, newRole) ==
  IF targetRole = currentRole THEN FALSE
  ELSE CASE currentRole = "OWNER" -> TRUE
         [] currentRole = "ADMIN" -> newRole # "OWNER"
         [] OTHER -> FALSE

requesterRole_Admin(roles, entityId) ==
  IF roles[entityId] = NoRole THEN "ADMIN" ELSE roles[entityId]
\* world.metadata.roles[message.entityId] || Role.NONE
requesterRole(roles, entityId) ==
  IF roles[entityId] = NoRole THEN "NONE" ELSE roles[entityId]

\* what the model extracts from the text: no, one or two assignments
RoleAssignments == [entityId : RoleEntities, newRole : Role]
RoleAssignmentLists ==
  {<<>>} \cup {<<a>> : a \in RoleAssignments}
         \cup {<<a, b>> : a \in RoleAssignments, b \in RoleAssignments}

RoleRuns == 1..Len(roleRuns)
NoAssignment == [entityId |-> "", currentRole |-> NoRole, newRole |-> "", permitted |-> FALSE]
\* a run that returned or threw keeps nothing but how it ended
Finished(outcome) ==
  [ entityId |-> "", pc |-> "done", outcome |-> outcome, read |-> NoRoles,
    world |-> NoRoles, requesterRole |-> "NONE", result |-> <<>>, i |-> 0,
    worldUpdated |-> FALSE, last |-> NoAssignment ]

\* a world comes into being with the roles its creator gave it
CreateWorld(roles) ==
  /\ worldRoles = NoWorld
  /\ worldRoles' = {roles}
  /\ UNCHANGED <<agentVars, tasks, serverVars, fetches, uiMessages, relays, hookVars,
                 roleRuns, participantUserState, unmuteRuns>>

\* the handler up to the call of getWorld; without a state it throws
updateRoleAction(entityId, hasState) ==
  /\ \A r \in RoleRuns : roleRuns[r].pc = "done"
  /\ roleRuns' = Append(roleRuns,
       IF ~hasState THEN Finished("threw")
       ELSE [Finished("") EXCEPT !.entityId = entityId, !.pc = "getWorld"])
  /\ UNCHANGED <<agentVars, tasks, serverVars, fetches, uiMessages, relays, hookVars,
                 worldRoles, participantUserState, unmuteRuns>>

\* getWorld resolves: without a world the run answers and returns, else it
\* asks for the entities of the room
RoleWorldResolves(r) ==
  /\ r \in RoleRuns
  /\ roleRuns[r].pc = "getWorld"
  /\ roleRuns' = [roleRuns EXCEPT ![r] =
       IF worldRoles = NoWorld THEN Finished("no_world")
       ELSE [@ EXCEPT !.pc = "getEntitiesForRoom", !.read = StoredRoles, !.world = StoredRoles]]
  /\ UNCHANGED <<agentVars, tasks, serverVars, fetches, uiMessages, relays, hookVars,
                 worldRoles, participantUserState, unmuteRuns>>

\* the entities arrive: the requester's role is read and the model is asked
GetEntitiesForRoomResolves(r) ==
  /\ r \in RoleRuns
  /\ roleRuns[r].pc = "getEntitiesForRoom"
  /\ roleRuns' = [roleRuns EXCEPT ![r] =
       [@ EXCEPT !.pc = "useModel",
                 !.requesterRole = requesterRole(roleRuns[r].world,
                                                roleRuns[r].entityId)]]
  /\ UNCHANGED <<agentVars, tasks, serverVars, fetches, uiMessages, relays, hookVars,
                 worldRoles, participantUserState, unmuteRuns>>

\* one pass of the loop up to its awaited callback: the assignment is
\* applied to the run's world when canModifyRole permits it
ProcessAssignment(run, i) ==
  LET assignment == run.result[i]
      currentRole == run.world[assignment.entityId]
      permitted == canModifyRole(run.requesterRole, currentRole, assignment.newRole)
  IN [run EXCEPT
        !.pc = "callback",
        !.i = i,
        !.world = IF permitted
                  THEN [@ EXCEPT ![assignment.entityId] = assignment.newRole]
                  ELSE @,
        !.worldUpdated = @ \/ permitted,
        !.last = [entityId |-> assignment.entityId, currentRole |-> currentRole,
                  newRole |-> assignment.newRole, permitted |-> permitted]]

\* the model answers: nothing extracted ends the run, else the loop starts
UseModelResolves(r, result) ==
  /\ r \in RoleRuns
  /\ roleRuns[r].pc = "useModel"
  /\ roleRuns' = [roleRuns EXCEPT ![r] =
       IF Len(result) = 0 THEN Finished("no_assignments")
       ELSE ProcessAssignment([@ EXCEPT !.result = result], 1)]
  /\ UNCHANGED <<agentVars, tasks, serverVars, fetches, uiMessages, relays, hookVars,
                 worldRoles, participantUserState, unmuteRuns>>

\* the callback of a pass resolves: the next pass, or the end of the loop,
\* where a changed world is handed to updateWorld
RoleCallbackResolves(r) ==
  /\ r \in RoleRuns
  /\ roleRuns[r].pc = "callback"
  /\ roleRuns' = [roleRuns EXCEPT ![r] =
       IF @.i < Len(@.result) THEN ProcessAssignment(@, @.i + 1)
       ELSE IF @.worldUpdated THEN [@ EXCEPT !.pc = "updateWorld"]
       ELSE Finished("unchanged")]
  /\ UNCHANGED <<agentVars, tasks, serverVars, fetches, uiMessages, relays, hookVars,
                 worldRoles, participantUserState, unmuteRuns>>

\* updateWorld stores the run's world
UpdateWorldResolves(r) ==
  /\ r \in RoleRuns
  /\ roleRuns[r].pc = "updateWorld"
  /\ worldRoles' = {roleRuns[r].world}
  /\ roleRuns' = [roleRuns EXCEPT ![r] = Finished("saved")]
  /\ UNCHANGED <<agentVars, tasks, serverVars, fetches, uiMessages, relays, hookVars,
                 participantUserState, unmuteRuns>>

\* number of runs of the handler, one after the other (SpecRoles)
MaxRoleRuns == 2

NextRoles ==
  \/ \E roles \in RoleMaps : CreateWorld(roles)
  \/ \E entityId \in RoleEntities, hasState \in BOOLEAN :
       Len(roleRuns) < MaxRoleRuns /\ updateRoleAction(entityId, hasState)
  \/ \E r \in RoleRuns : RoleWorldResolves(r)
  \/ \E r \in RoleRuns : GetEntitiesForRoomResolves(r)
  \/ \E r \in RoleRuns, result \in RoleAssignmentLists : UseModelResolves(r, result)
  \/ \E r \in RoleRuns : RoleCallbackResolves(r)
  \/ \E r \in RoleRuns : UpdateWorldResolves(r)

SpecRoles == Init /\ [][NextRoles]_vars

\* the runs inside or after the loop
InLoop(r) == roleRuns[r].pc \in {"callback", "updateWorld"}
\* the entries a run changed in the world it read
ChangedBy(r) == {e \in RoleEntities : roleRuns[r].world[e] # roleRuns[r].read[e]}
\* the role of the requester in the world the run read
ReadRole(r) == roleRuns[r].read[roleRuns[r].entityId]
\* the run whose updateWorld stores a world in this step
Saving(r) ==
  /\ roleRuns[r].pc = "updateWorld"
  /\ worldRoles' = {roleRuns[r].world}

\* C32: no privilege escalation: a run changes a role entry only when the
\* requester is OWNER, or is ADMIN and the new role is not OWNER; a requester
\* with role NONE or without an entry changes nothing and never reaches
\* updateWorld; nobody becomes OWNER through a requester who is not OWNER;
\* and the stored roles change only by the updateWorld of such a run.
C32_NoPrivilegeEscalation ==
  /\ [](\A r \in RoleRuns : InLoop(r) =>
          /\ \A e \in ChangedBy(r) :
               \/ ReadRole(r) = "OWNER"
               \/ ReadRole(r) = "ADMIN" /\ roleRuns[r].world[e] # "OWNER"
          /\ roleRuns[r].last.permitted =>
               \/ ReadRole(r) = "OWNER"
               \/ ReadRole(r) = "ADMIN" /\ roleRuns[r].last.newRole # "OWNER"
          /\ ReadRole(r) \in {"NONE", NoRole} =>
               /\ ChangedBy(r) = {}
               /\ ~roleRuns[r].worldUpdated
               /\ roleRuns[r].pc # "updateWorld")
  /\ [][worldRoles # NoWorld /\ worldRoles' # worldRoles =>
          \E r \in RoleRuns :
            /\ Saving(r)
            /\ ReadRole(r) \in {"OWNER", "ADMIN"}
            /\ \A e \in RoleEntities :
                 /\ roleRuns[r].world[e] = "OWNER"
                 /\ StoredRoles[e] # "OWNER"
                 => ReadRole(r) = "OWNER"]_vars

\* an ADMIN made somebody ADMIN and was refused an OWNER, and the world is
\* on its way to updateWorld
C32_Witness ==
  \E r \in RoleRuns :
    /\ roleRuns[r].pc = "updateWorld"
    /\ ReadRole(r) = "ADMIN"
    /\ \E e \in ChangedBy(r) : roleRuns[r].world[e] = "ADMIN"
    /\ roleRuns[r].last.newRole = "OWNER"
    /\ ~roleRuns[r].last.permitted

\* C33: no run changes the role entry of its own requester, whatever the
\* assignments and whatever the requester's role, in the world it works on
\* and in the world it stores.
C33_OwnRoleUntouched ==
  /\ [](\A r \in RoleRuns : InLoop(r) => roleRuns[r].entityId \notin ChangedBy(r))
  /\ [][\A r \in RoleRuns :
          Saving(r) /\ worldRoles # NoWorld =>
            roleRuns[r].world[roleRuns[r].entityId] = StoredRoles[roleRuns[r].entityId]]_vars

\* an OWNER asked for a lower role for itself after a permitted change of
\* somebody else
C33_Witness ==
  \E r \in RoleRuns :
    /\ roleRuns[r].pc = "callback"
    /\ ReadRole(r) = "OWNER"
    /\ roleRuns[r].last.entityId = roleRuns[r].entityId
    /\ roleRuns[r].last.newRole = "NONE"
    /\ roleRuns[r].worldUpdated

\* C34: an OWNER is permitted every assignment on every other entity,
\* whatever the role the target has and whatever the new role.
C34_OwnersCanDoEverything ==
  \A r \in RoleRuns :
    /\ roleRuns[r].pc = "callback"
    /\ roleRuns[r].requesterRole = "OWNER"
    /\ roleRuns[r].last.entityId # roleRuns[r].entityId
    => roleRuns[r].last.permitted

\* ------------------------------------------------------------------------
\* The UNMUTE_ROOM action of the bootstrap plugin
\* ------------------------------------------------------------------------
\* String.prototype.toLowerCase on the letters the answers are made of
LowerCase(c) ==
  CASE c = "Y" -> "y" [] c = "E" -> "e" [] c = "S" -> "s"
    [] c = "N" -> "n" [] c = "O" -> "o" [] OTHER -> c
toLowerCase(text) == [i \in 1..Len(text) |-> LowerCase(text[i])]
\* String.prototype.includes
Contains(text, word) ==
  \E i \in 1..Len(text) :
    i + Len(word) - 1 <= Len(text) /\ SubSeq(text, i, i + Len(word) - 1) = word

\* the two tests of _shouldUnmute on the cleaned response: the equalities
\* are cases of the includes
IsAffirmative(cleanedResponse) ==
  \/ cleanedResponse \in {<<"t", "r", "u", "e">>, <<"y", "e", "s">>, <<"y">>}
  \/ Contains(cleanedResponse, <<"t", "r", "u", "e">>)
  \/ Contains(cleanedResponse, <<"y", "e", "s">>)
IsNegative(cleanedResponse) ==
  \/ cleanedResponse \in {<<"f", "a", "l", "s", "e">>, <<"n", "o">>, <<"n">>}
  \/ Contains(cleanedResponse, <<"f", "a", "l", "s", "e">>)
  \/ Contains(cleanedResponse, <<"n", "o">>)

\* what the model answers to the prompt
UnmuteResponses ==
  { <<"Y", "E", "S">>, <<" ", "y", "e", "s", "\n">>, <<"y">>, <<"N", "o">>,
    <<"n", "o", " ", "y", "e", "s">>, <<"m", "a", "y", "b", "e">>, <<>> }

UnmuteRuns == 1..Len(unmuteRuns)

\* the agent is muted in the room (by the MUTE_ROOM action)
MuteRoom ==
  /\ participantUserState = "null"
  /\ participantUserState' = "MUTED"
  /\ UNCHANGED <<agentVars, tasks, serverVars, fetches, uiMessages, relays, hookVars,
                 worldRoles, roleRuns, unmuteRuns>>

\* the handler up to its first await; validate let it run because the
\* agent's state in the room is MUTED
unmuteRoomAction(hasState, hasResponses) ==
  /\ participantUserState = "MUTED"
  /\ unmuteRuns' = Append(unmuteRuns,
       [ state |-> hasState, responses |-> hasResponses,
         pc |-> IF hasState THEN "useModel" ELSE "getRoom",
         shouldUnmute |-> FALSE, cleared |-> FALSE, created |-> <<>>,
         pushed |-> FALSE, outcome |-> "" ])
  /\ UNCHANGED <<agentVars, tasks, serverVars, fetches, uiMessages, relays, hookVars,
                 worldRoles, roleRuns, participantUserState>>

\* _shouldUnmute after the model's answer
ShouldUnmuteAnswered(u, response) ==
  /\ u \in UnmuteRuns
  /\ unmuteRuns[u].pc = "useModel"
  /\ LET cleanedResponse == toLowerCase(trim(response))
     IN unmuteRuns' = [unmuteRuns EXCEPT ![u].pc =
          IF IsAffirmative(cleanedResponse) THEN "createMemory_STARTED"
          ELSE IF IsNegative(cleanedResponse) THEN "createMemory_FAILED"
          ELSE "getRoom"]
  /\ UNCHANGED <<agentVars, tasks, serverVars, fetches, uiMessages, relays, hookVars,
                 worldRoles, roleRuns, participantUserState>>

\* a createMemory of the run resolves: after UNMUTE_ROOM_STARTED the state
\* is cleared next, after UNMUTE_ROOM_FAILED the room is looked up, and
\* after UNMUTE_ROOM_START the response is pushed and the handler returns
UnmuteCreateMemoryResolves(u) ==
  /\ u \in UnmuteRuns
  /\ unmuteRuns[u].pc \in {"createMemory_STARTED", "createMemory_FAILED", "createMemory_START"}
  /\ unmuteRuns' = [unmuteRuns EXCEPT ![u] =
       CASE @.pc = "createMemory_STARTED" ->
              [@ EXCEPT !.created = Append(@, "UNMUTE_ROOM_STARTED"),
                        !.shouldUnmute = TRUE, !.pc = "setParticipantUserState"]
         [] @.pc = "createMemory_FAILED" ->
              [@ EXCEPT !.created = Append(@, "UNMUTE_ROOM_FAILED"), !.pc = "getRoom"]
         [] OTHER ->
              [@ EXCEPT !.created = Append(@, "UNMUTE_ROOM_START"),
                        !.pushed = unmuteRuns[u].responses,
                        !.pc = "done", !.outcome = "returned"]]
  /\ UNCHANGED <<agentVars, tasks, serverVars, fetches, uiMessages, relays, hookVars,
                 worldRoles, roleRuns, participantUserState>>

\* setParticipantUserState(roomId, agentId, null) resolves
SetParticipantUserStateResolves(u) ==
  /\ u \in UnmuteRuns
  /\ unmuteRuns[u].pc = "setParticipantUserState"
  /\ participantUserState' = "null"
  /\ unmuteRuns' = [unmuteRuns EXCEPT ![u].cleared = TRUE, ![u].pc = "getRoom"]
  /\ UNCHANGED <<agentVars, tasks, serverVars, fetches, uiMessages, relays, hookVars,
                 worldRoles, roleRuns>>

\* getRoom resolves: without a room the handler returns false, else it
\* creates the memory of the unmute
UnmuteGetRoomResolves(u, found) ==
  /\ u \in UnmuteRuns
  /\ unmuteRuns[u].pc = "getRoom"
  /\ unmuteRuns' = [unmuteRuns EXCEPT ![u] =
       IF found THEN [@ EXCEPT !.pc = "createMemory_START"]
       ELSE [@ EXCEPT !.pc = "done", !.outcome = "false"]]
  /\ UNCHANGED <<agentVars, tasks, serverVars, fetches, uiMessages, relays, hookVars,
                 worldRoles, roleRuns, participantUserState>>

\* an awaited call of the run rejects: the handler throws
UnmuteCallRejects(u) ==
  /\ u \in UnmuteRuns
  /\ unmuteRuns[u].pc # "done"
  /\ unmuteRuns' = [unmuteRuns EXCEPT ![u].pc = "done", ![u].outcome = "threw"]
  /\ UNCHANGED <<agentVars, tasks, serverVars, fetches, uiMessages, relays, hookVars,
                 worldRoles, roleRuns, participantUserState>>

\* number of runs of the handler (SpecUnmute)
MaxUnmuteRuns == 2

NextUnmute ==
  \/ MuteRoom
  \/ \E hasState \in BOOLEAN, hasResponses \in BOOLEAN :
       Len(unmuteRuns) < MaxUnmuteRuns /\ unmuteRoomAction(hasState, hasResponses)
  \/ \E u \in UnmuteRuns, response \in UnmuteResponses : ShouldUnmuteAnswered(u, response)
  \/ \E u \in UnmuteRuns : UnmuteCreateMemoryResolves(u)
  \/ \E u \in UnmuteRuns : SetParticipantUserStateResolves(u)
  \/ \E u \in UnmuteRuns, found \in BOOLEAN : UnmuteGetRoomResolves(u, found)
  \/ \E u \in UnmuteRuns : UnmuteCallRejects(u)

SpecUnmute == Init /\ [][NextUnmute]_vars

\* the run reported an unmute: the memory with UNMUTE_ROOM_START, or the
\* response in the responses array
ReportedUnmute(u) ==
  \/ \E i \in 1..Len(unmuteRuns[u].created) : unmuteRuns[u].created[i] = "UNMUTE_ROOM_START"
  \/ unmuteRuns[u].pushed

\* C35: a run reports an unmute only when it cleared the agent's state in
\* the room, which takes a state and an affirmative decision.
C35_ReportOnlyWhenUnmuted ==
  \A u \in UnmuteRuns :
    ReportedUnmute(u) =>
      /\ unmuteRuns[u].cleared
      /\ unmuteRuns[u].state
      /\ unmuteRuns[u].shouldUnmute

\* ------------------------------------------------------------------------
\* The socket relay when every call settles and the runtime completes
\* ------------------------------------------------------------------------
\* every awaited call of a relay settles, and the runtime signals the
\* completion of every message it was given
SocketFairness ==
  \A k \in 1..MaxRelays :
    /\ WF_vars(\E outcome \in Outcomes : EnsureConnectionSettles(k, outcome))
    /\ WF_vars(\E outcome \in Outcomes : ProcessAttachmentsSettles(k, outcome))
    /\ WF_vars(\E outcome \in Outcomes : RelayCreateMemorySettles(k, outcome))
    /\ WF_vars(onComplete(k))

SpecSocketFair == Init /\ [][NextSocket]_vars /\ SocketFairness

\* the message was accepted for processing
Accepted(k) ==
  /\ k \in Relays
  /\ relays[k].payload.senderId # AgentId
  /\ relays[k].payload.hasMessage
\* messageComplete and then controlMessage enable_input went to the room
InputEnabled(k) ==
  /\ k \in Relays
  /\ \E i \in 1..Len(relays[k].emitted) : \E j \in (i + 1)..Len(relays[k].emitted) :
       /\ relays[k].emitted[i] =
            Emission("messageComplete", relays[k].payload.channelId, "")
       /\ relays[k].emitted[j] =
            Emission("controlMessage", relays[k].payload.channelId, "enable_input")

\* C36: every accepted socket message is eventually followed by
\* messageComplete and then controlMessage enable_input to the room of its
\* channel, also when ensureConnection, the attachments or the agent fail.
C36_InputAlwaysReenabled ==
  \A k \in 1..MaxRelays : Accepted(k) ~> InputEnabled(k)

\* ------------------------------------------------------------------------
\* The message list of useChannelMessages
\* ------------------------------------------------------------------------
UiMessageIds == {"m1", "m2", "m3"}
Timestamps == {1, 2, 3}
\* the fields of a UiMessage that the list operations read
UiMessages == [id : UiMessageIds, createdAt : Timestamps]
\* a page of the server: no, one or two messages, in any order
Pages ==
  {<<>>} \cup {<<a>> : a \in UiMessages} \cup {<<a, b>> : a \in UiMessages, b \in UiMessages}
\* Partial<UiMessage>: the fields given replace those of the message;
\* NoUpdates gives fields other than id and createdAt
NoUpdates == [hasId |-> FALSE, id |-> "m1", hasCreatedAt |-> FALSE, createdAt |-> 1]
UiUpdates ==
  {NoUpdates}
    \cup {[NoUpdates EXCEPT !.hasCreatedAt = TRUE, !.createdAt = t] : t \in Timestamps}
    \cup {[NoUpdates EXCEPT !.hasId = TRUE, !.id = id] : id \in UiMessageIds}

\* Array.from(new Map(combined.map(item => [item.id, item])).values()): one
\* entry per id, at the place of the id's first item, holding its last item
RECURSIVE uniqueMessages(_)
uniqueMessages(combined) ==
  IF combined = <<>> THEN <<>>
  ELSE LET id == Head(combined).id
           same == SelectSeq(combined, LAMBDA item : item.id = id)
           others == SelectSeq(combined, LAMBDA item : item.id # id)
       IN <<same[Len(same)]>> \o uniqueMessages(others)

\* Array.prototype.sort((a, b) => a.createdAt - b.createdAt), which is stable
RECURSIVE sort(_)
sort(list) ==
  IF list = <<>> THEN <<>>
  ELSE LET last == list[Len(list)]
           sorted == sort(SubSeq(list, 1, Len(list) - 1))
       IN SelectSeq(sorted, LAMBDA m : m.createdAt <= last.createdAt)
            \o <<last>> \o SelectSeq(sorted, LAMBDA m : m.createdAt > last.createdAt)

\* prev.findIndex(m => m.id === id), 0 for -1
findIndex(prev, id) ==
  IF \E i \in 1..Len(prev) : prev[i].id = id
  THEN CHOOSE i \in 1..Len(prev) :
         prev[i].id = id /\ \A j \in 1..(i - 1) : prev[j].id # id
  ELSE 0

\* number of entries the list is let grow to (SpecMessages)
MaxMessages == 3

\* fetchMessages from the arrival of the page on: a full load replaces the
\* list, a load before a timestamp puts the page in front of it
MessagesArrive(beforeTimestamp, newUiMessages) ==
  /\ LET combined == IF beforeTimestamp # 0 THEN newUiMessages \o messageList
                     ELSE newUiMessages
     IN /\ Len(combined) <= MaxMessages
        /\ messageList' = sort(uniqueMessages(combined))
  /\ UNCHANGED <<agentVars, tasks, serverVars, fetches, uiMessages, relays, pluginVars>>

addMessage(newMessage) ==
  /\ Len(messageList) < MaxMessages
  /\ LET existingIndex == findIndex(messageList, newMessage.id)
     IN messageList' =
          IF existingIndex > 0
          THEN sort([messageList EXCEPT ![existingIndex] = newMessage])
          ELSE sort(Append(messageList, newMessage))
  /\ UNCHANGED <<agentVars, tasks, serverVars, fetches, uiMessages, relays, pluginVars>>

\* { ...m, ...updates }
Updated(m, updates) ==
  [ id |-> IF updates.hasId THEN updates.id ELSE m.id,
    createdAt |-> IF updates.hasCreatedAt THEN updates.createdAt ELSE m.createdAt ]

updateMessage(messageId, updates) ==
  /\ messageList' = [i \in 1..Len(messageList) |->
       IF messageList[i].id = messageId THEN Updated(messageList[i], updates)
       ELSE messageList[i]]
  /\ UNCHANGED <<agentVars, tasks, serverVars, fetches, uiMessages, relays, pluginVars>>

removeMessage(messageId) ==
  /\ messageList' = SelectSeq(messageList, LAMBDA m : m.id # messageId)
  /\ UNCHANGED <<agentVars, tasks, serverVars, fetches, uiMessages, relays, pluginVars>>

NextMessages ==
  \/ \E beforeTimestamp \in {0} \cup Timestamps, newUiMessages \in Pages :
       MessagesArrive(beforeTimestamp, newUiMessages)
  \/ \E newMessage \in UiMessages : addMessage(newMessage)
  \/ \E messageId \in UiMessageIds, updates \in UiUpdates : updateMessage(messageId, updates)
  \/ \E messageId \in UiMessageIds : removeMessage(messageId)

SpecMessages == Init /\ [][NextMessages]_vars

\* C37: after any sequence of loads, addMessage, updateMessage and
\* removeMessage the list holds no id twice and is in ascending order of
\* createdAt.
C37_ListWellFormed ==
  /\ \A i \in 1..Len(messageList) : \A j \in 1..Len(messageList) :
       i # j => messageList[i].id # messageList[j].id
  /\ \A i \in 1..Len(messageList) : \A j \in (i + 1)..Len(messageList) :
       messageList[i].createdAt <= messageList[j].createdAt

====
